---- MODULE Spec2Model ----
(***************************************************************************)
(* Model of the atzentis-cli core: the wave scheduler (TaskScheduler), the *)
(* session store (SessionManager) and the run / resume executors           *)
(* (TaskExecutor, ResumeExecutor).                                         *)
(***************************************************************************)
EXTENDS Integers, Sequences, FiniteSets, TLC

VARIABLES
    schedIn, schedOut,       \* argument and outcome of buildExecutionWaves (scheduler specification)
    allTasks,                \* the task records on disk (phase directory)
    tasks,                   \* the task list loadedTasks by the running command
    parallel, maxParallel,   \* options of the running command
    session, checkpoints,    \* session.db: the sessions row and the checkpoints table
    mode, outcome,           \* the process: idle, run, resume, stopped; how the last command ended
    waves, pos,              \* execute(): the waves and the <<wave, batch>> being awaited
    pc, attempt,             \* per task: position in executeTask, attempt of executeTaskWithRetry
    hasErrors, hooks,        \* execute(): hasErrors flag; onError / onSuccess invocations
    startedNow,              \* tasks for which this execute() has called startTask
    ops,                     \* per task: git operations done by the current attempt
    attemptLog,              \* per task: what the agent and the validation of the current
                             \* attempt came to, and where the attempt threw
    interrupted,             \* tasks that were started and not checkpointed when the process died
    resumes,                 \* number of resume commands so far
    worktreeDirs,            \* per task: its worktree directory on disk (none, present, or
                             \* stale: left behind by a removeWorktree that failed)
    unpushed,                \* observed by CommitSpec: tasks whose branch carries a commit
                             \* of the executor that no push has followed
    scenario,                \* the environment of the commands. "any": any behaviour of hooks,
                             \* git and agent, no validation (--fast, or no commands
                             \* configured). "validated": the same, non-fast with lint and
                             \* test commands configured. "testFails": validated, hooks, git
                             \* and agent succeed and the test command always exits
                             \* non-zero. "warnHooksFail": as "any", and the afterTask,
                             \* onSuccess and onError hooks fail whenever they run
    sessionsTable,           \* session.db of the store specifications: the rows of table
    checkpointsTable,        \* sessions and of table checkpoints, in rowid order
    clock,                   \* the millisecond new Date() reads
    called,                  \* the last SessionManager call and what it returned
    metaJson, taskFiles,     \* a phase directory: its meta.json and the parsed per-task files
    loadedTasks,             \* the last loader call and the tasks it returned
    worktreeConfig,          \* a WorktreeManager: its worktreeBaseDir and project
    worktreeCalls,           \* the createWorktree calls made on it, with what they returned
    pushCalls                \* the pushBranch calls made on it, with the branch pushed

schedVars == <<schedIn, schedOut>>

execVars == <<allTasks, tasks, parallel, maxParallel, session, checkpoints, mode, outcome,
              waves, pos, pc, attempt, hasErrors, hooks, startedNow, ops, attemptLog,
              interrupted, resumes, worktreeDirs, unpushed, scenario>>

storeVars == <<sessionsTable, checkpointsTable, clock, called>>

loaderVars == <<metaJson, taskFiles, loadedTasks>>

pathVars == <<worktreeConfig, worktreeCalls, pushCalls>>

nonExecVars == <<schedVars, storeVars, loaderVars, pathVars>>

nonSchedVars == <<execVars, storeVars, loaderVars, pathVars>>

nonStoreVars == <<schedVars, execVars, loaderVars, pathVars>>

nonLoaderVars == <<schedVars, execVars, storeVars, pathVars>>

nonPathVars == <<schedVars, execVars, storeVars, loaderVars>>

vars == <<schedVars, execVars, storeVars, loaderVars, pathVars>>

(***************************************************************************)
(* Bounds of the model.                                                    *)
(***************************************************************************)
MaxSchedTasks == 3
MaxEdges == 3
MaxGroup == 2
MaxTasks == 3
MaxParallel == 2
MaxResumes == 1

NULL == 0

(***************************************************************************)
(* Sequence helpers.                                                       *)
(***************************************************************************)
Range(s) == {s[i] : i \in 1..Len(s)}

Reverse(s) == [i \in 1..Len(s) |-> s[Len(s) + 1 - i]]

RECURSIVE FlattenSeq(_)
FlattenSeq(ss) == IF ss = <<>> THEN <<>> ELSE Head(ss) \o FlattenSeq(Tail(ss))

Count(s, x) == Cardinality({i \in 1..Len(s) : s[i] = x})

SeqsUpTo(S, n) == UNION {[1..k -> S] : k \in 0..n}

Ids(ts) == [i \in 1..Len(ts) |-> ts[i].id]

(***************************************************************************)
(* TaskScheduler                                                           *)
(***************************************************************************)

\* taskMap = new Map(tasks.map(t => [t.id, t])): the last entry of an id wins
TaskOf(ts, id) ==
    ts[CHOOSE i \in 1..Len(ts) :
          /\ ts[i].id = id
          /\ \A j \in 1..Len(ts) : ts[j].id = id => j <= i]

\* the first (task, dep) pair, in iteration order, whose dep is no task id
UnknownDependency(ts) ==
    LET all == UNION {{<<i, k>> : k \in 1..Len(ts[i].dependencies)} : i \in 1..Len(ts)}
        bad == {p \in all : ts[p[1]].dependencies[p[2]] \notin Range(Ids(ts))}
    IN IF bad = {} THEN <<>>
       ELSE LET f == CHOOSE p \in bad :
                        \A q \in bad : \/ p[1] < q[1]
                                       \/ (p[1] = q[1] /\ p[2] <= q[2])
            IN <<ts[f[1]].id, ts[f[1]].dependencies[f[2]]>>

\* dfs: st = [visited, stack, cycle]; a non-empty cycle is the thrown path
RECURSIVE dfs(_, _, _, _), dfsDeps(_, _, _, _, _)

dfs_NoStackCheck(ts, taskId, path, st) ==
    IF st.cycle # <<>> THEN st
    ELSE IF taskId \in st.visited THEN st
    ELSE LET st1 == [st EXCEPT !.visited = @ \cup {taskId},
                               !.stack = @ \cup {taskId}]
             st2 == IF taskId \in Range(Ids(ts))
                    THEN dfsDeps(ts, TaskOf(ts, taskId).dependencies, 1,
                                 Append(path, taskId), st1)
                    ELSE st1
         IN IF st2.cycle # <<>> THEN st2
            ELSE [st2 EXCEPT !.stack = @ \ {taskId}]

dfs(ts, taskId, path, st) ==
    IF st.cycle # <<>> THEN st
    ELSE IF taskId \in st.stack
         THEN [st EXCEPT !.cycle = Append(path, taskId)]
    ELSE IF taskId \in st.visited THEN st
    ELSE LET st1 == [st EXCEPT !.visited = @ \cup {taskId},
                               !.stack = @ \cup {taskId}]
             st2 == IF taskId \in Range(Ids(ts))
                    THEN dfsDeps(ts, TaskOf(ts, taskId).dependencies, 1,
                                 Append(path, taskId), st1)
                    ELSE st1
         IN IF st2.cycle # <<>> THEN st2
            ELSE [st2 EXCEPT !.stack = @ \ {taskId}]

dfsDeps(ts, deps, k, path, st) ==
    IF k > Len(deps) \/ st.cycle # <<>> THEN st
    ELSE dfsDeps(ts, deps, k + 1, path, dfs(ts, deps[k], path, st))

RECURSIVE dfsRoots(_, _, _)
dfsRoots(ts, k, st) ==
    IF k > Len(ts) \/ st.cycle # <<>> THEN st
    ELSE dfsRoots(ts, k + 1,
                  IF ts[k].id \in st.visited THEN st
                  ELSE dfs(ts, ts[k].id, <<>>, st))

\* the reported cycle path, or <<>> when no error is thrown
detectCircularDependencies(ts) ==
    dfsRoots(ts, 1, [visited |-> {}, stack |-> {}, cycle |-> <<>>]).cycle

depsCompleted_Some(task, allCompleted) ==
    \/ Len(task.dependencies) = 0
    \/ \E k \in 1..Len(task.dependencies) : task.dependencies[k] \in allCompleted

\* task.dependencies.every(dep => allCompleted.has(dep))
depsCompleted(task, allCompleted) ==
    \A k \in 1..Len(task.dependencies) : task.dependencies[k] \in allCompleted

\* one sweep of the while loop: i runs from the end of remaining to its start
currentWaveOf(remaining, allCompleted) ==
    Reverse(SelectSeq(remaining, LAMBDA t : depsCompleted(t, allCompleted)))

RECURSIVE buildWavesLoop(_, _, _)

buildWavesLoop_DropsBlocked(remaining, allCompleted, acc) ==
    IF Len(remaining) = 0 THEN [ok |-> TRUE, waves |-> acc, remaining |-> <<>>]
    ELSE LET currentWave == currentWaveOf(remaining, allCompleted)
             rest == SelectSeq(remaining,
                               LAMBDA t : ~depsCompleted(t, allCompleted))
         IN IF Len(currentWave) = 0
            THEN [ok |-> TRUE, waves |-> acc, remaining |-> <<>>]
            ELSE buildWavesLoop(rest, allCompleted \cup Range(Ids(currentWave)),
                                Append(acc, currentWave))

buildWavesLoop(remaining, allCompleted, acc) ==
    IF Len(remaining) = 0 THEN [ok |-> TRUE, waves |-> acc, remaining |-> <<>>]
    ELSE LET currentWave == currentWaveOf(remaining, allCompleted)
             rest == SelectSeq(remaining,
                               LAMBDA t : ~depsCompleted(t, allCompleted))
         IN IF Len(currentWave) = 0
            THEN [ok |-> FALSE, waves |-> acc, remaining |-> Ids(remaining)]
            ELSE buildWavesLoop(rest, allCompleted \cup Range(Ids(currentWave)),
                                Append(acc, currentWave))

buildWavesWithDependencies(groupTasks, completed) ==
    buildWavesLoop(groupTasks, completed, <<>>)

RECURSIVE SortedSeq(_), SortedSeq_Desc(_)

SortedSeq_Desc(S) ==
    IF S = {} THEN <<>>
    ELSE LET m == CHOOSE x \in S : \A y \in S : x >= y
         IN <<m>> \o SortedSeq_Desc(S \ {m})

\* [...groups.keys()].sort((a, b) => a - b)
SortedSeq(S) ==
    IF S = {} THEN <<>>
    ELSE LET m == CHOOSE x \in S : \A y \in S : x <= y
         IN <<m>> \o SortedSeq(S \ {m})

groupTasksOf_UpTo(ts, groupNum) ==
    SelectSeq(ts, LAMBDA t : t.parallelGroup <= groupNum)

\* groups.get(groupNum): the tasks of one parallelGroup, in input order
groupTasksOf(ts, groupNum) ==
    SelectSeq(ts, LAMBDA t : t.parallelGroup = groupNum)

RECURSIVE groupLoop(_, _, _, _)
groupLoop(ts, groupNums, completed, allWaves) ==
    IF groupNums = <<>> THEN [ok |-> TRUE, error |-> "none", waves |-> allWaves,
                              detail |-> <<>>]
    ELSE LET groupTasks == groupTasksOf(ts, Head(groupNums))
             r == buildWavesWithDependencies(groupTasks, completed)
         IN IF ~r.ok
            THEN [ok |-> FALSE, error |-> "unschedulable", waves |-> <<>>,
                  detail |-> r.remaining]
            ELSE groupLoop(ts, Tail(groupNums),
                           completed \cup Range(Ids(FlattenSeq(r.waves))),
                           allWaves \o r.waves)

\* result: ok with waves, or the error thrown with its detail
buildExecutionWaves(ts) ==
    IF Len(ts) = 0
    THEN [ok |-> TRUE, error |-> "none", waves |-> <<>>, detail |-> <<>>]
    ELSE IF UnknownDependency(ts) # <<>>
    THEN [ok |-> FALSE, error |-> "unknown", waves |-> <<>>,
          detail |-> UnknownDependency(ts)]
    ELSE IF detectCircularDependencies(ts) # <<>>
    THEN [ok |-> FALSE, error |-> "circular", waves |-> <<>>,
          detail |-> detectCircularDependencies(ts)]
    ELSE groupLoop(ts, SortedSeq({ts[i].parallelGroup : i \in 1..Len(ts)}), {}, <<>>)

(***************************************************************************)
(* SessionManager: the sessions row is read, changed and written back by   *)
(* every operation (getSession ... updateSession); each SQL statement is   *)
(* durable on its own.                                                     *)
(***************************************************************************)
TaskIds == 1..MaxTasks

\* no entry of session.errors for a task; error messages are numbered from 1
NoError == [iterations |-> 0, lastError |-> NULL, retried |-> FALSE, resolved |-> FALSE]

NoSession ==
    [created |-> FALSE, currentTask |-> NULL, completedTasks |-> <<>>,
     failedTasks |-> <<>>, pendingTasks |-> <<>>, lastCheckpointAt |-> 0,
     worktrees |-> {}, branches |-> {}, prs |-> {},
     errors |-> [t \in TaskIds |-> NoError]]

createSession(ids) == [NoSession EXCEPT !.created = TRUE, !.pendingTasks = ids]

startTask(s, t) ==
    [s EXCEPT !.currentTask = t,
              !.pendingTasks = SelectSeq(@, LAMBDA x : x # t)]

\* saveCheckpoint, first statement: INSERT INTO checkpoints
insertCheckpoint(cps, t, status) == Append(cps, [taskId |-> t, status |-> status])

\* saveCheckpoint, second statement: updateSession; lastCheckpointAt carries
\* the timestamp of the row just inserted (here: its position)
checkpointUpdate(s, cps, t, status) ==
    [s EXCEPT !.lastCheckpointAt = Len(cps),
              !.currentTask = NULL,
              !.completedTasks = IF status = "completed" THEN Append(@, t) ELSE @,
              !.failedTasks = IF status = "failed" THEN Append(@, t) ELSE @]

recordError_NoCount(s, t, error) ==
    [s EXCEPT !.errors[t] =
        [iterations |-> 1, lastError |-> error, retried |-> FALSE, resolved |-> FALSE]]

recordError(s, t, error) ==
    [s EXCEPT !.errors[t] =
        IF @.iterations > 0
        THEN [iterations |-> @.iterations + 1, lastError |-> error,
              retried |-> TRUE, resolved |-> FALSE]
        ELSE [iterations |-> 1, lastError |-> error, retried |-> FALSE, resolved |-> FALSE]]

resolveError_Clear(s, t) == [s EXCEPT !.errors[t] = NoError]

resolveError(s, t) ==
    IF s.errors[t].iterations > 0 THEN [s EXCEPT !.errors[t].resolved = TRUE] ELSE s

registerWorktree(s, t) == [s EXCEPT !.worktrees = @ \cup {t}]

\* a write that puts back a stale copy of the branches read before another
\* task's registration
registerBranch_Overwrites(s, t) == [s EXCEPT !.branches = {t}]

registerBranch(s, t) == [s EXCEPT !.branches = @ \cup {t}]

registerPR(s, t) == [s EXCEPT !.prs = @ \cup {t}]

\* resumeCommand: an interrupted currentTask goes back to the head of pendingTasks
requeueCurrent(s) ==
    IF s.currentTask # NULL
    THEN [s EXCEPT !.pendingTasks = <<s.currentTask>> \o @, !.currentTask = NULL]
    ELSE s

(***************************************************************************)
(* TaskExecutor / ResumeExecutor                                           *)
(***************************************************************************)
maxRetries == 2

Min(a, b) == IF a < b THEN a ELSE b

RECURSIVE chunkFrom(_, _, _)
chunkFrom(array, size, i) ==
    IF i > Len(array) THEN <<>>
    ELSE <<SubSeq(array, i, Min(i + size - 1, Len(array)))>> \o chunkFrom(array, size, i + size)

chunkArray_Whole(array, size) == <<array>>

chunkArray(array, size) == chunkFrom(array, size, 1)

IsParallelWave_AnySize(wave, par) == Len(wave) > 1

\* the branch taken by execute() for a wave
IsParallelWave(wave, par) == par /\ Len(wave) > 1

\* the groups of tasks execute() awaits one after the other within a wave:
\* the chunks in the parallel branch, single tasks in the sequential branch
Batches(wave, par, mp) ==
    IF IsParallelWave(wave, par) THEN chunkArray(Ids(wave), mp)
    ELSE [i \in 1..Len(wave) |-> <<wave[i].id>>]

CurBatch == Batches(waves[pos[1]], parallel, maxParallel)[pos[2]]

AtEnd(p) == p[1] > Len(waves)

NextPos ==
    IF pos[2] < Len(Batches(waves[pos[1]], parallel, maxParallel)) THEN <<pos[1], pos[2] + 1>>
    ELSE <<pos[1] + 1, 1>>

Terminal == {"done", "failed"}

BatchSettled_Any(b) == \E t \in Range(b) : pc[t] \in Terminal

\* await Promise.allSettled(chunk...) / await executeTaskWithRetry(task)
BatchSettled(b) == \A t \in Range(b) : pc[t] \in Terminal

\* a saveCheckpoint call is between its INSERT and its UPDATE
MidWrite == \E t \in TaskIds : pc[t] \in {"cpInsC", "cpInsF"}

Running == mode \in {"run", "resume"}

IdlePc == [t \in TaskIds |-> "idle"]

NoOps == [t \in TaskIds |-> {}]

\* the result of engine.execute: success (exit code 0) and completed
\* (completion token seen in the output)
EngineResults == [success : BOOLEAN, completed : BOOLEAN]

\* no attempt is under way: the agent has not run, no validation, no exception
NoAttempt ==
    [ran |-> FALSE, result |-> [success |-> FALSE, completed |-> FALSE],
     lint |-> "skipped", test |-> "skipped", threw |-> "none", afterTask |-> <<>>]

\* the status the afterTask hook is invoked with: success ? 'success' : 'error'
afterTaskStatus_AlwaysSuccess(success) == "success"

afterTaskStatus(success) == IF success THEN "success" ELSE "error"

NoLogs == [t \in TaskIds |-> NoAttempt]

NoHooks == [onError |-> 0, onSuccess |-> 0]

\* in the run of the testFails scenario nothing fails but the validation
OnlyTestFails == mode = "run" /\ scenario = "testFails"

\* a non-fast command of a project with lint and test commands
Validated == scenario \in {"validated", "testFails"}

\* the afterTask, onSuccess and onError hooks exit non-zero
WarnHooksFail == scenario = "warnHooksFail"

\* the process ends (return, process.exit or kill): its memory is gone
Stop(how) ==
    /\ mode' = "stopped"
    /\ outcome' = how
    /\ tasks' = <<>>
    /\ waves' = <<>>
    /\ pos' = <<0, 0>>
    /\ pc' = IdlePc
    /\ attempt' = [t \in TaskIds |-> 0]
    /\ hasErrors' = FALSE
    /\ startedNow' = {}
    /\ ops' = NoOps
    /\ attemptLog' = NoLogs

\* the tasks of batch p of the waves ws start their first attempt
Launch(ws, p, par, mp) ==
    /\ pos' = p
    /\ pc' = [t \in TaskIds |->
                IF t \in Range(Batches(ws[p[1]], par, mp)[p[2]]) THEN "ready" ELSE pc[t]]
    /\ attempt' = [t \in TaskIds |->
                IF t \in Range(Batches(ws[p[1]], par, mp)[p[2]]) THEN 0 ELSE attempt[t]]

StartRun_SessionFirst ==
    /\ mode = "idle"
    /\ \E par \in BOOLEAN, mp \in 1..MaxParallel, dryRun \in BOOLEAN :
         /\ par \/ mp = 1
         /\ parallel' = par
         /\ maxParallel' = mp
         /\ session' = createSession(Ids(allTasks))
         /\ LET plan == buildExecutionWaves(allTasks)
            IN IF ~plan.ok
               THEN Stop("schedfail")
               ELSE IF dryRun
               THEN Stop("dryrun")
               ELSE /\ tasks' = allTasks
                    /\ waves' = plan.waves
                    /\ mode' = "run"
                    /\ UNCHANGED <<outcome, pos, pc, attempt, hasErrors, startedNow, ops,
                                   attemptLog>>
    /\ UNCHANGED <<nonExecVars, unpushed, allTasks, checkpoints, hooks, interrupted, resumes,
                   worktreeDirs>>

\* runCommand: generateExecutionPlan (which throws when scheduling fails),
\* the return of a dry run, createSession, execute() up to the beforePhase
\* hook
StartRun ==
    /\ mode = "idle"
    /\ \E par \in BOOLEAN, mp \in 1..MaxParallel, dryRun \in BOOLEAN :
         /\ par \/ mp = 1
         /\ parallel' = par
         /\ maxParallel' = mp
         /\ LET plan == buildExecutionWaves(allTasks)
            IN IF ~plan.ok
               THEN /\ Stop("schedfail")
                    /\ UNCHANGED session
               ELSE IF dryRun
               THEN /\ Stop("dryrun")
                    /\ UNCHANGED session
               ELSE /\ session' = createSession(Ids(allTasks))
                    /\ tasks' = allTasks
                    /\ waves' = plan.waves
                    /\ mode' = "run"
                    /\ UNCHANGED <<outcome, pos, pc, attempt, hasErrors, startedNow, ops,
                                   attemptLog>>
    /\ UNCHANGED <<nonExecVars, unpushed, allTasks, checkpoints, hooks, interrupted, resumes,
                   worktreeDirs>>

RunCommand ==
    /\ scenario' \in {"any", "testFails"}
    /\ StartRun

\* execute(): the beforePhase hook returns; a failure throws out of execute()
BeforePhase ==
    /\ mode = "run" /\ pos = <<0, 0>>
    /\ \E hookOk \in BOOLEAN :
         IF hookOk
         THEN /\ Launch(waves, <<1, 1>>, parallel, maxParallel)
              /\ UNCHANGED <<mode, outcome, tasks, waves, hasErrors, startedNow, ops, attemptLog>>
         ELSE Stop("failed")
    /\ UNCHANGED <<nonExecVars, unpushed, allTasks, scenario, parallel, maxParallel, session, checkpoints,
                   hooks, interrupted, resumes, worktreeDirs>>

\* the exit status of an afterTask, onSuccess or onError hook
WarnHookResults ==
    IF WarnHooksFail THEN {FALSE}
    ELSE IF OnlyTestFails THEN {TRUE}
    ELSE BOOLEAN

\* afterTask, onSuccess, onError: a failure is warned about, nothing is thrown
warnHookThrows_OnFailure(hookOk) == ~hookOk

warnHookThrows(hookOk) == FALSE

hasErrorsAfter_LastOnly(b) == \E t \in Range(b) : pc[t] = "failed"

\* hasErrors once the results of batch b have been looked at
hasErrorsAfter(b) == hasErrors \/ \E t \in Range(b) : pc[t] = "failed"

\* execute(): the awaited batch has settled; the loop goes on to the next
\* batch, throws (sequential branch of run) or returns
Advance ==
    /\ Running /\ pos[1] >= 1 /\ ~MidWrite
    /\ BatchSettled(CurBatch)
    /\ LET failedHere == \E t \in Range(CurBatch) : pc[t] = "failed"
           errs == hasErrorsAfter(CurBatch)
       IN IF failedHere /\ ~IsParallelWave(waves[pos[1]], parallel)
          THEN /\ hooks' = [hooks EXCEPT !.onError = @ + 1]
               /\ Stop("failed")
          ELSE IF AtEnd(NextPos)
          THEN /\ hooks' = IF mode = "run" /\ ~errs
                           THEN [hooks EXCEPT !.onSuccess = @ + 1] ELSE hooks
               /\ \E hookOk \in WarnHookResults :
                    Stop(IF mode = "run" /\ ~errs /\ warnHookThrows(hookOk)
                         THEN "failed" ELSE "success")
          ELSE /\ Launch(waves, NextPos, parallel, maxParallel)
               /\ hasErrors' = errs
               /\ UNCHANGED <<mode, outcome, tasks, waves, startedNow, ops, attemptLog, hooks>>
    /\ UNCHANGED <<nonExecVars, unpushed, allTasks, scenario, parallel, maxParallel, session, checkpoints,
                   interrupted, resumes, worktreeDirs>>

\* WorktreeManager.removeWorktree: nothing to do without a directory; else the
\* directory is removed, or the removal throws and leaves it behind
removeWorktree(dirs, t, removed) ==
    IF dirs[t] = "none" THEN dirs
    ELSE [dirs EXCEPT ![t] = IF removed THEN "none" ELSE "stale"]

AfterThrow_Unbounded(t) ==
    /\ attempt' = [attempt EXCEPT ![t] = @ + 1]
    /\ pc' = [pc EXCEPT ![t] = "ready"]
    /\ \E removed \in BOOLEAN :
         /\ (worktreeDirs[t] = "none") => removed
         /\ worktreeDirs' = removeWorktree(worktreeDirs, t, removed)

\* an attempt that threw: executeTaskWithRetry (run) removes the worktree,
\* ignoring a removal error, and retries, up to maxRetries times; then it throws
AfterThrow(t) ==
    IF attempt[t] < maxRetries
    THEN /\ attempt' = [attempt EXCEPT ![t] = @ + 1]
         /\ pc' = [pc EXCEPT ![t] = "ready"]
         /\ \E removed \in BOOLEAN :
              /\ (worktreeDirs[t] = "none") => removed
              /\ worktreeDirs' = removeWorktree(worktreeDirs, t, removed)
    ELSE /\ pc' = [pc EXCEPT ![t] = "failed"]
         /\ UNCHANGED <<attempt, worktreeDirs>>

\* executeTask, up to createWorktree: (run) the worktree of a failed attempt is
\* removed, the beforeTask hook runs and may throw; then startTask
Begin_StartFirst(t) ==
    /\ Running /\ ~MidWrite /\ pc[t] = "ready"
    /\ \E hookOk \in BOOLEAN :
         /\ (mode = "resume" \/ OnlyTestFails) => hookOk
         /\ session' = startTask(session, t)
         /\ startedNow' = startedNow \cup {t}
         /\ IF hookOk
            THEN /\ pc' = [pc EXCEPT ![t] = "create"]
                 /\ ops' = [ops EXCEPT ![t] = {}]
                 /\ attemptLog' = [attemptLog EXCEPT ![t] = NoAttempt]
                 /\ UNCHANGED <<attempt, worktreeDirs>>
            ELSE /\ AfterThrow(t)
                 /\ attemptLog' = [attemptLog EXCEPT ![t] = NoAttempt]
                 /\ UNCHANGED ops
    /\ UNCHANGED <<nonExecVars, unpushed, allTasks, scenario, tasks, parallel, maxParallel, checkpoints, mode,
                   outcome, waves, pos, hasErrors, hooks, interrupted, resumes>>

Begin(t) ==
    /\ Running /\ ~MidWrite /\ pc[t] = "ready"
    /\ \E hookOk \in BOOLEAN :
         /\ (mode = "resume" \/ OnlyTestFails) => hookOk
         /\ IF hookOk
            THEN /\ session' = startTask(session, t)
                 /\ pc' = [pc EXCEPT ![t] = "create"]
                 /\ startedNow' = startedNow \cup {t}
                 /\ ops' = [ops EXCEPT ![t] = {}]
                 /\ attemptLog' = [attemptLog EXCEPT ![t] = NoAttempt]
                 /\ UNCHANGED <<attempt, worktreeDirs>>
            ELSE /\ AfterThrow(t)
                 /\ attemptLog' = [attemptLog EXCEPT ![t] = NoAttempt]
                 /\ UNCHANGED <<session, startedNow, ops>>
    /\ UNCHANGED <<nonExecVars, unpushed, allTasks, scenario, tasks, parallel, maxParallel, checkpoints, mode,
                   outcome, waves, pos, hasErrors, hooks, interrupted, resumes>>

\* the message of the error an attempt throws
thrownMessage == 1

\* catch block of executeTask, up to the INSERT of saveCheckpoint(failed)
Fail(t) ==
    /\ session' = recordError(session, t, thrownMessage)
    /\ checkpoints' = insertCheckpoint(checkpoints, t, "failed")
    /\ pc' = [pc EXCEPT ![t] = "cpInsF"]

\* createWorktree returns (registerWorktree, registerBranch) or throws
Create(t) ==
    /\ Running /\ ~MidWrite /\ pc[t] = "create"
    /\ \E ok \in BOOLEAN :
         /\ OnlyTestFails => ok
         /\ IF ok
            THEN /\ session' = registerBranch(registerWorktree(session, t), t)
                 /\ worktreeDirs' = [worktreeDirs EXCEPT ![t] = "present"]
                 /\ pc' = [pc EXCEPT ![t] = "exec"]
                 /\ UNCHANGED checkpoints
            ELSE /\ Fail(t)
                 /\ UNCHANGED worktreeDirs
    /\ UNCHANGED <<nonExecVars, unpushed, allTasks, scenario, tasks, parallel, maxParallel, mode,
                   outcome, waves, pos, attempt, hasErrors, hooks, startedNow, ops, attemptLog,
                   interrupted, resumes>>

\* the check after engine.execute: the attempt goes on only for a result
\* with success and completed
attemptContinues(result) == result.success /\ result.completed

\* runValidation is called by the run executor, non-fast with commands
RunsValidation == mode = "run" /\ Validated

\* runValidation with lint and test configured: lint, then test; a non-zero
\* exit throws
ValidationOutcomes ==
    IF ~RunsValidation
    THEN {[lint |-> "skipped", test |-> "skipped"]}
    ELSE IF OnlyTestFails
    THEN {[lint |-> "passed", test |-> "failed"]}
    ELSE {[lint |-> "failed", test |-> "skipped"],
          [lint |-> "passed", test |-> "failed"],
          [lint |-> "passed", test |-> "passed"]}

ValidationPassed(v) == v.lint # "failed" /\ v.test # "failed"

\* what hasUncommittedChanges, commitChanges, pushBranch and
\* createPullRequest can come to: an exception (after the git operations done
\* so far) or the end of the try block with the operations done
GitOutcomes ==
    IF mode = "run"
    THEN {[ok |-> FALSE, done |-> {}],
          [ok |-> FALSE, done |-> {"commit"}],
          [ok |-> TRUE, done |-> {}],
          [ok |-> TRUE, done |-> {"commit", "push"}],
          [ok |-> TRUE, done |-> {"commit", "push", "pr"}]}
    ELSE {[ok |-> FALSE, done |-> {}],
          [ok |-> TRUE, done |-> {}],
          [ok |-> TRUE, done |-> {"commit"}]}

AttemptLog(result, v, threw) ==
    [ran |-> TRUE, result |-> result, lint |-> v.lint, test |-> v.test, threw |-> threw,
     afterTask |-> <<>>]

\* what the try block can come to after createWorktree: the agent's result
\* stops the attempt, or the validation does, or the git operations are
\* reached
AttemptOutcomes ==
    LET skipped == [lint |-> "skipped", test |-> "skipped"]
        results == IF OnlyTestFails THEN {[success |-> TRUE, completed |-> TRUE]}
                   ELSE EngineResults
    IN UNION {
         IF ~attemptContinues(r)
         THEN {[ok |-> FALSE, done |-> {}, log |-> AttemptLog(r, skipped, "engine")]}
         ELSE UNION {
                IF ~ValidationPassed(v)
                THEN {[ok |-> FALSE, done |-> {}, log |-> AttemptLog(r, v, "validation")]}
                ELSE {[ok |-> g.ok, done |-> g.done,
                       log |-> AttemptLog(r, v, IF g.ok THEN "none" ELSE "git")] :
                         g \in GitOutcomes}
                : v \in ValidationOutcomes}
         : r \in results}

\* the branch of t after the git operations of an attempt: a push leaves
\* nothing unpushed, a commit without a push leaves the commit unpushed
branchAfter(unp, t, done) ==
    IF "push" \in done THEN unp \ {t}
    ELSE IF "commit" \in done THEN unp \cup {t}
    ELSE unp

\* the attempt of t ends as outcome g says: the INSERT of
\* saveCheckpoint(completed) after registerPR, or the catch block
attemptEnds(t, g) ==
    /\ ops' = [ops EXCEPT ![t] = g.done]
    /\ attemptLog' = [attemptLog EXCEPT ![t] = g.log]
    /\ IF g.ok
       THEN /\ session' = IF "pr" \in g.done THEN registerPR(session, t) ELSE session
            /\ checkpoints' = insertCheckpoint(checkpoints, t, "completed")
            /\ pc' = [pc EXCEPT ![t] = "cpInsC"]
       ELSE Fail(t)
    /\ UNCHANGED <<nonExecVars, allTasks, scenario, tasks, parallel, maxParallel, mode, outcome,
                   waves, pos, attempt, hasErrors, hooks, startedNow, interrupted, resumes,
                   worktreeDirs>>

\* the rest of the try block: prompt, engine, validation, commit, push, PR,
\* registerPR and the INSERT of saveCheckpoint(completed); or the catch block
Finish(t) ==
    /\ Running /\ ~MidWrite /\ pc[t] = "exec"
    /\ \E g \in AttemptOutcomes : attemptEnds(t, g)
    /\ UNCHANGED unpushed

\* the same step, with the state of the task's branch observed
FinishObserved(t) ==
    /\ Running /\ ~MidWrite /\ pc[t] = "exec"
    /\ \E g \in AttemptOutcomes :
         /\ attemptEnds(t, g)
         /\ unpushed' = branchAfter(unpushed, t, g.done)

\* the UPDATE of saveCheckpoint. After a failed checkpoint the afterTask hook
\* runs (finally block, success = false) and the exception reaches executeTaskWithRetry (run), or leaves
\* execute() and ends the command (resume).
Update(t) ==
    /\ Running /\ pc[t] \in {"cpInsC", "cpInsF"}
    /\ LET status == IF pc[t] = "cpInsC" THEN "completed" ELSE "failed"
       IN /\ session' = checkpointUpdate(session, checkpoints, t, status)
          /\ IF status = "completed"
             THEN /\ pc' = [pc EXCEPT ![t] = IF mode = "resume" THEN "done" ELSE "after"]
                  /\ ops' = [ops EXCEPT ![t] = {}]
                  /\ attemptLog' = [attemptLog EXCEPT ![t] = NoAttempt]
                  /\ UNCHANGED <<mode, outcome, tasks, waves, pos, attempt, hasErrors,
                                 startedNow, worktreeDirs>>
             ELSE IF mode = "resume"
             THEN /\ Stop("failed")
                  /\ UNCHANGED worktreeDirs
             ELSE /\ AfterThrow(t)
                  /\ ops' = [ops EXCEPT ![t] = {}]
                  /\ attemptLog' = [attemptLog EXCEPT ![t] =
                                       [NoAttempt EXCEPT !.afterTask = <<afterTaskStatus(FALSE)>>]]
                  /\ UNCHANGED <<mode, outcome, tasks, waves, pos, hasErrors, startedNow>>
    /\ UNCHANGED <<nonExecVars, unpushed, allTasks, scenario, parallel, maxParallel, checkpoints, hooks,
                   interrupted, resumes>>

\* the afterTask hook of a successful attempt returns (its result is
\* ignored); executeTaskWithRetry then calls resolveError and returns
After(t) ==
    /\ mode = "run" /\ ~MidWrite /\ pc[t] = "after"
    /\ attemptLog' = [attemptLog EXCEPT ![t].afterTask = Append(@, afterTaskStatus(TRUE))]
    /\ \E hookOk \in WarnHookResults :
         IF warnHookThrows(hookOk)
         THEN /\ AfterThrow(t)
              /\ UNCHANGED session
         ELSE /\ session' = resolveError(session, t)
              /\ pc' = [pc EXCEPT ![t] = "done"]
              /\ UNCHANGED <<attempt, worktreeDirs>>
    /\ UNCHANGED <<nonExecVars, unpushed, allTasks, scenario, tasks, parallel, maxParallel, checkpoints, mode,
                   outcome, waves, pos, hasErrors, hooks, startedNow, ops,
                   interrupted, resumes>>

\* started by startTask, current attempt not yet checkpointed
Uncheckpointed == {t \in TaskIds : pc[t] \in {"create", "exec"}}

\* the process is killed at any point of a command
Crash ==
    /\ Running
    /\ interrupted' = Uncheckpointed
    /\ Stop("crashed")
    /\ UNCHANGED <<nonExecVars, unpushed, allTasks, scenario, parallel, maxParallel, session, checkpoints,
                   hooks, resumes, worktreeDirs>>

\* loadRemainingTasks: the task records of the pending ids, in that order
loadRemainingTasks(ids) == [i \in 1..Len(ids) |-> TaskOf(allTasks, ids[i])]

\* resumeCommand: re-queue an interrupted currentTask, load the pending
\* tasks, schedule them afresh and start the first batch
Resume ==
    /\ mode = "stopped" /\ session.created /\ resumes < MaxResumes
    /\ Len(session.pendingTasks) > 0 \/ session.currentTask # NULL
    /\ resumes' = resumes + 1
    /\ session' = requeueCurrent(session)
    /\ \E par \in BOOLEAN, mp \in 1..MaxParallel :
         /\ par \/ mp = 1
         /\ parallel' = par
         /\ maxParallel' = mp
         /\ LET loaded == loadRemainingTasks(session'.pendingTasks)
                plan == buildExecutionWaves(loaded)
            IN IF plan.ok
               THEN /\ tasks' = loaded
                    /\ waves' = plan.waves
                    /\ mode' = "resume"
                    /\ Launch(plan.waves, <<1, 1>>, par, mp)
                    /\ UNCHANGED <<outcome, hasErrors, startedNow, ops, attemptLog>>
               ELSE Stop("failed")
    /\ UNCHANGED <<nonExecVars, unpushed, allTasks, scenario, checkpoints, hooks, interrupted, worktreeDirs>>

(***************************************************************************)
(* Executor specification: a run command over a small phase, then kills    *)
(* and resume commands.                                                    *)
(***************************************************************************)
\* the phases run, over tasks 1..MaxTasks of one parallelGroup: a chain
\* (each task depends on the one before), a fan-out (every later task
\* depends on the first) and a fan-in (the last task depends on all others)
PhaseTask(i, deps) == [id |-> i, dependencies |-> deps, parallelGroup |-> 1]

ChainPhase == [i \in TaskIds |-> PhaseTask(i, IF i = 1 THEN <<>> ELSE <<i - 1>>)]

FanOutPhase == [i \in TaskIds |-> PhaseTask(i, IF i = 1 THEN <<>> ELSE <<1>>)]

FanInPhase ==
    [i \in TaskIds |->
        PhaseTask(i, IF i < MaxTasks THEN <<>> ELSE [k \in 1..(MaxTasks - 1) |-> k])]

\* phases of two tasks A = 1, B = 2: unrelated, and B depending on A
IndependentPair == <<PhaseTask(1, <<>>), PhaseTask(2, <<>>)>>

DependentPair == <<PhaseTask(1, <<>>), PhaseTask(2, <<1>>)>>

ExecPhases == {ChainPhase, FanOutPhase, FanInPhase, IndependentPair, DependentPair}

ExecIdle ==
    /\ tasks = <<>>
    /\ parallel = FALSE
    /\ maxParallel = 1
    /\ session = NoSession
    /\ checkpoints = <<>>
    /\ mode = "idle"
    /\ outcome = "none"
    /\ waves = <<>>
    /\ pos = <<0, 0>>
    /\ pc = IdlePc
    /\ attempt = [t \in TaskIds |-> 0]
    /\ hasErrors = FALSE
    /\ hooks = NoHooks
    /\ startedNow = {}
    /\ ops = NoOps
    /\ attemptLog = NoLogs
    /\ interrupted = {}
    /\ resumes = 0
    /\ worktreeDirs = [t \in TaskIds |-> "none"]
    /\ unpushed = {}
    /\ scenario = "any"

\* session.db of the store specifications is empty, nothing has been called
NoCall == [op |-> "none", arg |-> NULL, task |-> NULL, result |-> <<>>]

StoreIdle ==
    /\ sessionsTable = <<>>
    /\ checkpointsTable = <<>>
    /\ clock = 1
    /\ called = NoCall

\* no WorktreeManager is looked at
PathIdle ==
    /\ worktreeConfig = [worktreeBaseDir |-> <<>>, project |-> <<>>]
    /\ worktreeCalls = {}
    /\ pushCalls = {}

NotLoaded == [op |-> "none", tasks |-> <<>>]

\* no phase directory is looked at
LoaderIdle ==
    /\ metaJson = [valid |-> FALSE, tasks |-> <<>>]
    /\ taskFiles = <<>>
    /\ loadedTasks = NotLoaded

Init ==
    /\ schedIn = <<>>
    /\ schedOut = [ok |-> FALSE, error |-> "notrun", waves |-> <<>>, detail |-> <<>>]
    /\ allTasks \in ExecPhases
    /\ ExecIdle
    /\ StoreIdle
    /\ LoaderIdle
    /\ PathIdle

Next ==
    \/ RunCommand
    \/ BeforePhase
    \/ Advance
    \/ \E t \in TaskIds : Begin(t)
    \/ \E t \in TaskIds : Create(t)
    \/ \E t \in TaskIds : Finish(t)
    \/ \E t \in TaskIds : Update(t)
    \/ \E t \in TaskIds : After(t)
    \/ Crash
    \/ Resume

Spec == Init /\ [][Next]_vars

\* the commands on the two-task phases, with and without validation, and
\* with failing afterTask, onSuccess and onError hooks
RunCommandChecked ==
    /\ scenario' \in {"any", "validated", "warnHooksFail"}
    /\ StartRun

AttemptInit ==
    /\ schedIn = <<>>
    /\ schedOut = [ok |-> FALSE, error |-> "notrun", waves |-> <<>>, detail |-> <<>>]
    /\ allTasks \in {IndependentPair, DependentPair}
    /\ ExecIdle
    /\ StoreIdle
    /\ LoaderIdle
    /\ PathIdle

AttemptNext ==
    \/ RunCommandChecked
    \/ BeforePhase
    \/ Advance
    \/ \E t \in TaskIds : Begin(t)
    \/ \E t \in TaskIds : Create(t)
    \/ \E t \in TaskIds : Finish(t)
    \/ \E t \in TaskIds : Update(t)
    \/ \E t \in TaskIds : After(t)
    \/ Crash
    \/ Resume

AttemptSpec == AttemptInit /\ [][AttemptNext]_vars

(***************************************************************************)
(* Properties of the session and of the executors.                         *)
(***************************************************************************)
Crashed == mode = "stopped" /\ outcome = "crashed"

Occurrences(t) ==
    Count(session.pendingTasks, t) + Count(session.completedTasks, t)
       + Count(session.failedTasks, t) + (IF session.currentTask = t THEN 1 ELSE 0)

RowsOf(t, status) ==
    {i \in 1..Len(checkpoints) : checkpoints[i] = [taskId |-> t, status |-> status]}

CheckpointedTasks(status) ==
    LET rows == SelectSeq(checkpoints, LAMBDA r : r.status = status)
    IN [i \in 1..Len(rows) |-> rows[i].taskId]

WaveOf(t) == CHOOSE k \in 1..Len(waves) : t \in Range(Ids(waves[k]))

InFlight == {t \in TaskIds : pc[t] \notin {"idle", "done", "failed"}}

\* C1: every task id loadedTasks into the session is in exactly one of
\* pendingTasks, currentTask, completedTasks, failedTasks, exactly once.
C1_Partition ==
    session.created => \A t \in Range(Ids(allTasks)) : Occurrences(t) = 1

\* C2: after an interruption, every task that was started and has no
\* checkpoint yet is the persisted currentTask (or still pending), so that
\* resume can re-queue it.
C2_InterruptedReflected ==
    Crashed => \A t \in interrupted :
                  \/ session.currentTask = t
                  \/ t \in Range(session.pendingTasks)

\* C3: in every state observed after an interruption, the checkpoint rows
\* and the session agree: the completed / failed rows are exactly
\* completedTasks / failedTasks and lastCheckpointAt is the last row's (no
\* checkpoint row without its session update, and no update without its row).
C3_CheckpointAtomic ==
    Crashed => /\ session.completedTasks = CheckpointedTasks("completed")
               /\ session.failedTasks = CheckpointedTasks("failed")
               /\ session.lastCheckpointAt = Len(checkpoints)

\* C4: no commit, push or PR registration for a task happens once the task
\* has a completed checkpoint (the completed checkpoint comes last).
C4_NoGitAfterCompleted ==
    [][\A t \in TaskIds :
          (ops'[t] # {} /\ ops'[t] # ops[t]) => RowsOf(t, "completed") = {}]_vars

\* C5: a task id has at most one checkpoint with status completed.
C5_AtMostOneCompleted ==
    \A t \in TaskIds : Cardinality(RowsOf(t, "completed")) <= 1

\* C6: a task of a wave has been started only if every task of every
\* earlier wave has terminated (executeTaskWithRetry returned or threw).
C6_WavesInOrder ==
    Running => \A t \in startedNow :
                  \A k \in 1..(WaveOf(t) - 1) :
                     \A u \in Range(Ids(waves[k])) : pc[u] \in Terminal

C6_Witness ==
    /\ mode = "run" /\ parallel
    /\ \E t \in startedNow :
          /\ WaveOf(t) = 2
          /\ pc[t] = "exec"
          /\ Len(waves[1]) = 2
          /\ \E u, v \in Range(Ids(waves[1])) : pc[u] = "failed" /\ pc[v] = "done"

\* C7: in parallel mode the number of tasks in flight never exceeds
\* maxParallel.
C7_InFlightBounded ==
    (Running /\ parallel) => Cardinality(InFlight) <= maxParallel

C7_Witness ==
    /\ Running /\ parallel
    /\ pos[1] >= 1
    /\ Len(waves[pos[1]]) > maxParallel
    /\ pos[2] = 2
    /\ Cardinality(InFlight \cap startedNow) = maxParallel

\* the attempt of t has reached its completed checkpoint
Succeeded == {"cpInsC", "after", "done"}

\* C12: in a run a task is attempted at most 3 times, no attempt follows a
\* successful attempt, and a new attempt starts only after removeWorktree
\* has removed the task's worktree or has failed trying.
C12_RetryEnvelope ==
    /\ [](mode = "run" => \A t \in TaskIds : attempt[t] + 1 <= 3)
    /\ [][mode = "run" =>
            \A t \in TaskIds :
               /\ pc[t] \in Succeeded => pc'[t] \in Succeeded \cup {"idle"}
               /\ attempt'[t] > attempt[t] => worktreeDirs'[t] # "present"]_vars

\* the third attempt of a task is under way although the removal of its
\* worktree failed
C12_Witness ==
    /\ mode = "run"
    /\ \E t \in TaskIds :
          /\ attempt[t] = 2
          /\ pc[t] = "create"
          /\ worktreeDirs[t] = "stale"
          /\ session.errors[t].iterations = 2

\* execute() of the run command ends by itself (it returns or throws)
ExecuteEnds == mode = "run" /\ pos[1] >= 1 /\ mode' = "stopped" /\ outcome' # "crashed"

\* C13: in parallel mode a final failure does not abort the run: when
\* execute() ends, every task of every wave has been run to its end.
C13_ParallelFailureDoesNotAbort ==
    [][(ExecuteEnds /\ parallel) => \A t \in Range(Ids(tasks)) : pc[t] \in Terminal]_vars

FailedFinally(t) == pc[t] = "failed"

\* C14: in a sequential run, once a task has failed finally no other task
\* is in flight or gets started, the next step of execute() fires onError
\* (once in the run) and aborts the run, and every task that was not started
\* is still in pendingTasks.
C14_SequentialFailFast ==
    /\ [](hooks.onError <= 1)
    /\ []((mode = "run" /\ ~parallel) =>
            \A t \in TaskIds : FailedFinally(t) =>
               \A u \in TaskIds \ {t} : pc[u] \in {"idle", "done"})
    /\ [][(mode = "run" /\ ~parallel /\ \E t \in TaskIds : FailedFinally(t)) =>
             /\ mode' = "stopped"
             /\ \/ outcome' = "crashed"
                \/ /\ outcome' = "failed"
                   /\ hooks'.onError = 1 /\ hooks.onError = 0
                   /\ hooks'.onSuccess = 0
                   /\ \A u \in Range(Ids(tasks)) \ startedNow :
                         /\ u \in Range(session'.pendingTasks)
                         /\ RowsOf(u, "completed") \cup RowsOf(u, "failed") = {}]_vars

\* a sequential run aborted after task 2 failed three times: task 1 is
\* completed, task 3 was never started
C14_Witness ==
    /\ mode = "stopped" /\ outcome = "failed" /\ ~parallel /\ resumes = 0
    /\ hooks.onError = 1
    /\ session.completedTasks = <<1>>
    /\ Count(session.failedTasks, 2) = 3
    /\ session.pendingTasks = <<3>>
    /\ session.errors[2].iterations = 3

\* C15: onSuccess fires at most once in a run, on the step that ends
\* execute() after the last wave, and only if every task of every wave ended
\* without a final failure; onSuccess and onError never both fire.
C15_OnSuccessOnlyWithoutFailure ==
    /\ [](hooks.onSuccess <= 1 /\ ~(hooks.onSuccess >= 1 /\ hooks.onError >= 1))
    /\ [][hooks'.onSuccess # hooks.onSuccess =>
             /\ hooks'.onSuccess = 1
             /\ mode = "run" /\ mode' = "stopped" /\ outcome' = "success"
             /\ pos[1] = Len(waves)
             /\ \A t \in Range(Ids(tasks)) : pc[t] = "done"
             /\ Range(session'.completedTasks) = Range(Ids(tasks))]_vars

\* a parallel run in which an attempt failed and its retry succeeded ends
\* with onSuccess
C15_Witness ==
    /\ mode = "stopped" /\ outcome = "success" /\ parallel /\ resumes = 0
    /\ hooks.onSuccess = 1
    /\ \E t \in TaskIds : session.errors[t].iterations >= 1

\* the run command has ended by itself and no resume has followed
RunEnded(how) == mode = "stopped" /\ resumes = 0 /\ outcome = how

\* C16: when execute() returned (success is reported), every task id of the
\* session is in completedTasks and none is in failedTasks or pendingTasks;
\* when it threw, some task is in failedTasks or still pending.
C16_OutcomeMatchesSession ==
    /\ RunEnded("success") =>
          /\ Range(session.completedTasks) = Range(Ids(allTasks))
          /\ session.failedTasks = <<>>
          /\ session.pendingTasks = <<>>
    /\ RunEnded("failed") =>
          session.failedTasks # <<>> \/ session.pendingTasks # <<>>

\* the step is a resume command
ResumeStep == resumes' = resumes + 1

\* every dependency of a task pending after the re-queue is pending too or
\* completed in the session, and some dependency is a completed task that
\* is not pending
DepsPendingOrCompleted(s) ==
    LET pend == Range(s.pendingTasks)
        deps(t) == Range(TaskOf(allTasks, t).dependencies)
    IN /\ \A t \in pend : deps(t) \subseteq pend \cup Range(s.completedTasks)
       /\ \E t \in pend : \E d \in deps(t) : d \in Range(s.completedTasks) /\ d \notin pend

\* C17: a resume whose pending tasks depend on tasks already completed in
\* the session schedules them (no unknown-dependency error) and goes on to
\* execute them.
C17_ResumeAcceptsCompletedDeps ==
    [][(ResumeStep /\ DepsPendingOrCompleted(session')) => mode' = "resume"]_vars

\* C18: a task that is in failedTasks while a resume command executes (it
\* was there when the resume started) is not started by the resume, and
\* its entries in failedTasks stay as they are.
C18_ResumeSkipsFailedTasks ==
    [][mode = "resume" =>
          \A u \in Range(session.failedTasks) :
             /\ u \notin startedNow'
             /\ Count(session'.failedTasks, u) = Count(session.failedTasks, u)]_vars

\* a phase of the two tasks A = 1 and B = 2 in which no attempt has failed
TwoTaskScenario == Len(allTasks) = 2 /\ session.failedTasks = <<>>

\* C19: sequential run of tasks A, B killed after startTask(B) and before
\* B's checkpoint: the session has currentTask = B, completedTasks = [A],
\* pendingTasks = []; the resume command makes pendingTasks = [B] and
\* currentTask = null and executes; when it ends successfully the session
\* has completedTasks = [A, B], pendingTasks = [], currentTask = null.
C19_CrashMidTaskAndResume ==
    /\ []((Crashed /\ resumes = 0 /\ ~parallel /\ TwoTaskScenario /\ interrupted = {2}) =>
            /\ session.currentTask = 2
            /\ session.completedTasks = <<1>>
            /\ session.pendingTasks = <<>>)
    /\ [][(ResumeStep /\ TwoTaskScenario /\ session.currentTask = 2
              /\ session.completedTasks = <<1>> /\ session.pendingTasks = <<>>) =>
             /\ session'.pendingTasks = <<2>>
             /\ session'.currentTask = NULL
             /\ mode' = "resume"]_vars
    /\ [][(mode = "resume" /\ mode' = "stopped" /\ outcome' = "success"
              /\ TwoTaskScenario /\ interrupted = {2}
              /\ session.completedTasks # <<>> /\ Head(session.completedTasks) = 1) =>
             /\ session'.completedTasks = <<1, 2>>
             /\ session'.pendingTasks = <<>>
             /\ session'.currentTask = NULL]_vars

\* C20: in a non-fast run in which the agent completes and the test
\* command exits non-zero on every attempt, a task that has failed finally
\* was attempted exactly 3 times (3 failed checkpoints), is in failedTasks
\* and not in completedTasks, and errors[t] has iterations = 3 and
\* resolved = false.
C20_TestFailureExhaustsRetries ==
    OnlyTestFails =>
       \A t \in TaskIds : FailedFinally(t) =>
          /\ attempt[t] + 1 = 3
          /\ Cardinality(RowsOf(t, "failed")) = 3
          /\ t \in Range(session.failedTasks)
          /\ t \notin Range(session.completedTasks)
          /\ RowsOf(t, "completed") = {}
          /\ session.errors[t].iterations = 3
          /\ session.errors[t].resolved = FALSE

\* both tasks of a parallel wave have exhausted their attempts
C20_Witness ==
    /\ OnlyTestFails /\ parallel
    /\ \E t, u \in TaskIds : t # u /\ FailedFinally(t) /\ FailedFinally(u)

(***************************************************************************)
(* Scheduler specification: buildExecutionWaves applied to every bounded   *)
(* task list.                                                              *)
(***************************************************************************)
\* the dependencies of task i, in the order of the edge list es
DepsFrom(es, i) ==
    LET sel == SelectSeq(es, LAMBDA e : e[1] = i)
    IN [k \in 1..Len(sel) |-> sel[k][2]]

SchedTaskList(n, es, g) ==
    [i \in 1..n |-> [id |-> i, dependencies |-> DepsFrom(es, i), parallelGroup |-> g[i]]]

NotRun == [ok |-> FALSE, error |-> "notrun", waves |-> <<>>, detail |-> <<>>]

SchedInit ==
    /\ \E n \in 0..MaxSchedTasks :
         \E es \in SeqsUpTo((1..n) \X (1..MaxSchedTasks), MaxEdges) :
            \E g \in [1..n -> 1..MaxGroup] :
               /\ \A k \in 1..(Len(es) - 1) : es[k][1] <= es[k + 1][1]
               /\ schedIn = SchedTaskList(n, es, g)
    /\ schedOut = NotRun
    /\ allTasks = <<>>
    /\ ExecIdle
    /\ StoreIdle
    /\ LoaderIdle
    /\ PathIdle

Schedule ==
    /\ schedOut = NotRun
    /\ schedOut' = buildExecutionWaves(schedIn)
    /\ UNCHANGED <<schedIn, nonSchedVars>>

SchedNext == Schedule

SchedSpec == SchedInit /\ [][SchedNext]_vars

(***************************************************************************)
(* Graph notions used to state the scheduler properties; they are defined  *)
(* from the dependency relation alone, not from the scheduler.             *)
(***************************************************************************)
DepsOfIds(ts, S) ==
    UNION {Range(ts[i].dependencies) : i \in {j \in 1..Len(ts) : ts[j].id \in S}}

RECURSIVE ReachWithin(_, _, _)
ReachWithin(ts, S, n) ==
    IF n = 0 THEN S ELSE ReachWithin(ts, S \cup DepsOfIds(ts, S), n - 1)

\* every id reachable from id over one or more dependency edges
Ancestors(ts, id) == ReachWithin(ts, DepsOfIds(ts, {id}), Len(ts))

OnCycle(ts, id) == id \in Range(Ids(ts)) /\ id \in Ancestors(ts, id)

HasCycle(ts) == \E i \in 1..Len(ts) : OnCycle(ts, ts[i].id)

UniqueIds(ts) == \A i, j \in 1..Len(ts) : ts[i].id = ts[j].id => i = j

AllDepsPresent(ts) == DepsOfIds(ts, Range(Ids(ts))) \subseteq Range(Ids(ts))

ValidDag(ts) == UniqueIds(ts) /\ AllDepsPresent(ts) /\ ~HasCycle(ts)

NoHigherGroupDep(ts) ==
    \A i, j \in 1..Len(ts) :
        ts[j].id \in Range(ts[i].dependencies) => ts[j].parallelGroup <= ts[i].parallelGroup

WavesPartition(ts, ws) ==
    LET flat == Ids(FlattenSeq(ws))
    IN /\ Range(flat) \subseteq Range(Ids(ts))
       /\ \A id \in Range(Ids(ts)) : Count(flat, id) = 1

WaveIndexOf(ws, id) == {k \in 1..Len(ws) : id \in Range(Ids(ws[k]))}

ScheduleDone == schedOut # NotRun

\* C8 (as stated): for every valid DAG, buildExecutionWaves returns waves
\* that partition the input task set.
C8_ValidDagReturnsPartition ==
    (ScheduleDone /\ ValidDag(schedIn))
        => (schedOut.ok /\ WavesPartition(schedIn, schedOut.waves))

\* C8 (amended): for every valid DAG in which no task depends on a task of
\* a higher parallelGroup, buildExecutionWaves returns waves that partition
\* the input; and whenever it returns, the waves partition the input.
C8_Partition ==
    /\ (ScheduleDone /\ ValidDag(schedIn) /\ NoHigherGroupDep(schedIn))
           => schedOut.ok
    /\ (ScheduleDone /\ schedOut.ok /\ UniqueIds(schedIn))
           => WavesPartition(schedIn, schedOut.waves)

C8_Witness ==
    /\ ScheduleDone /\ schedOut.ok
    /\ Len(schedIn) = MaxSchedTasks
    /\ Len(schedOut.waves) = 2
    /\ \E i, j \in 1..Len(schedIn) : schedIn[i].parallelGroup # schedIn[j].parallelGroup

\* C9: whenever buildExecutionWaves returns, every dependency of a task of
\* wave k is in a wave k' < k (so no dependency edge joins two tasks of one wave).
C9_DepsInEarlierWaves ==
    (ScheduleDone /\ schedOut.ok)
        => \A k \in 1..Len(schedOut.waves) :
             \A n \in 1..Len(schedOut.waves[k]) :
               \A d \in Range(schedOut.waves[k][n].dependencies) :
                 \E k2 \in WaveIndexOf(schedOut.waves, d) : k2 < k

C9_Witness ==
    /\ ScheduleDone /\ schedOut.ok
    /\ Len(schedOut.waves) >= 2
    /\ \E n \in 1..Len(schedOut.waves[2]) :
          Cardinality(Range(schedOut.waves[2][n].dependencies)) = 2

\* C10 (as stated): every cyclic input raises the circular-dependency error
\* and the reported path holds a task id that lies on a cycle.
C10_CyclicRaisesCircular ==
    (ScheduleDone /\ HasCycle(schedIn))
        => /\ schedOut.error = "circular"
           /\ \E id \in Range(schedOut.detail) : OnCycle(schedIn, id)

\* C10 (amended): every cyclic input whose dependencies are all present in
\* the list raises the circular-dependency error, returns no waves, and the
\* reported path holds a task id that lies on a cycle.
C10_CyclicAllPresentRaisesCircular ==
    (ScheduleDone /\ HasCycle(schedIn) /\ AllDepsPresent(schedIn))
        => /\ ~schedOut.ok
           /\ schedOut.waves = <<>>
           /\ schedOut.error = "circular"
           /\ \E id \in Range(schedOut.detail) : OnCycle(schedIn, id)

C10_Witness ==
    /\ ScheduleDone /\ schedOut.error = "circular"
    /\ \E i \in 1..Len(schedIn) :
          /\ OnCycle(schedIn, schedIn[i].id)
          /\ schedIn[i].id \notin Range(schedIn[i].dependencies)
    /\ \E id \in Range(schedOut.detail) : ~OnCycle(schedIn, id)

\* C11: whenever buildExecutionWaves returns, every wave holds tasks of one
\* parallelGroup only, and a task of a lower parallelGroup is in an earlier
\* wave than any task of a higher parallelGroup.
C11_GroupsForceWaveBoundaries ==
    (ScheduleDone /\ schedOut.ok)
        => \A k1, k2 \in 1..Len(schedOut.waves) :
             \A a \in Range(schedOut.waves[k1]), b \in Range(schedOut.waves[k2]) :
                /\ k1 = k2 => a.parallelGroup = b.parallelGroup
                /\ a.parallelGroup < b.parallelGroup => k1 < k2

\* two groups; a higher-group task without dependencies waits for the
\* waves of the lower group, which needs two waves itself
C11_Witness ==
    /\ ScheduleDone /\ schedOut.ok
    /\ Len(schedOut.waves) = 3
    /\ \E b \in Range(schedOut.waves[3]) :
          /\ b.parallelGroup = 2
          /\ b.dependencies = <<>>
    /\ \A a \in Range(schedOut.waves[1]) \cup Range(schedOut.waves[2]) : a.parallelGroup = 1

(***************************************************************************)
(* Session store specifications: SessionManager called directly, on a      *)
(* database that holds several sessions. Timestamps are the millisecond    *)
(* read by new Date(); their ISO strings compare as the milliseconds do.   *)
(***************************************************************************)
MaxSessions == 2
MaxClock == 2
MaxCheckpoints == 3
MaxIterations == 3
MaxMessages == 2
MaxProjects == 2

Projects == 1..MaxProjects

Messages == 1..MaxMessages

\* the task id lists handed to createSession: loadedTasks tasks, ascending by id
TaskIdLists == {SortedSeq(S) : S \in SUBSET TaskIds}

\* the clock reaches the next millisecond
Tick ==
    /\ clock < MaxClock
    /\ clock' = clock + 1
    /\ UNCHANGED <<nonStoreVars, sessionsTable, checkpointsTable, called>>

\* the checkpoints rows of a session
checkpointRows(id) == {r \in Range(checkpointsTable) : r.session_id = id}

Perms(S) == {s \in [1..Cardinality(S) -> S] : \A i, j \in 1..Cardinality(S) : s[i] = s[j] => i = j}

\* SELECT ... ORDER BY timestamp ASC: ascending timestamps; the order of rows
\* of equal timestamp is not determined by the statement
orderByTimestamp(rows) ==
    {s \in Perms(rows) : \A i \in 1..(Len(s) - 1) : s[i].timestamp <= s[i + 1].timestamp}

\* SELECT ... ORDER BY started_at DESC, likewise
orderByStartedAtDesc(rows) ==
    {s \in Perms(rows) : \A i \in 1..(Len(s) - 1) : s[i].started_at >= s[i + 1].started_at}

\* rowToSession, given the checkpoint rows as the SELECT returned them
rowToSession(row, cps) ==
    [id |-> row.id, project |-> row.project, startedAt |-> row.started_at,
     lastCheckpointAt |-> row.data.lastCheckpointAt,
     currentTask |-> row.data.currentTask,
     completedTasks |-> row.data.completedTasks,
     failedTasks |-> row.data.failedTasks,
     pendingTasks |-> row.data.pendingTasks,
     errors |-> row.data.errors,
     checkpoints |-> [i \in 1..Len(cps) |->
                        [timestamp |-> cps[i].timestamp, taskId |-> cps[i].task_id,
                         status |-> cps[i].status, rowid |-> cps[i].id]]]

\* what rowToSession can return for a row
sessionsOfRow(row) == {rowToSession(row, cps) : cps \in orderByTimestamp(checkpointRows(row.id))}

\* createSession: a fresh id, started_at = now; returns the new session
CreateSession(project, ids) ==
    /\ Len(sessionsTable) < MaxSessions
    /\ LET row == [id |-> Len(sessionsTable) + 1, project |-> project, started_at |-> clock,
                   data |-> createSession(ids)]
       IN /\ sessionsTable' = Append(sessionsTable, row)
          /\ called' = [op |-> "create", arg |-> project, task |-> NULL,
                        result |-> <<rowToSession(row, <<>>)>>]
    /\ UNCHANGED <<nonStoreVars, checkpointsTable, clock>>

\* getActiveSession: the first row of ORDER BY started_at DESC LIMIT 1; null
\* (no result) without a row, or when that row has no pending and no current task
GetActiveSession(project) ==
    /\ LET rows == {r \in Range(sessionsTable) : r.project = project}
       IN IF rows = {}
          THEN called' = [op |-> "getActive", arg |-> project, task |-> NULL, result |-> <<>>]
          ELSE \E sorted \in orderByStartedAtDesc(rows) :
                 LET row == sorted[1]
                 IN IF row.data.pendingTasks = <<>> /\ row.data.currentTask = NULL
                    THEN called' = [op |-> "getActive", arg |-> project, task |-> NULL, result |-> <<>>]
                    ELSE \E s \in sessionsOfRow(row) :
                           called' = [op |-> "getActive", arg |-> project, task |-> NULL, result |-> <<s>>]
    /\ UNCHANGED <<nonStoreVars, sessionsTable, checkpointsTable, clock>>

\* getSession: the row of that id, or null
GetSession(id) ==
    /\ IF id \in 1..Len(sessionsTable)
       THEN \E s \in sessionsOfRow(sessionsTable[id]) :
              called' = [op |-> "get", arg |-> id, task |-> NULL, result |-> <<s>>]
       ELSE called' = [op |-> "get", arg |-> id, task |-> NULL, result |-> <<>>]
    /\ UNCHANGED <<nonStoreVars, sessionsTable, checkpointsTable, clock>>

\* rows.map(rowToSession): what the sessions of the rows can be
RECURSIVE sessionsOfRows(_)
sessionsOfRows(rows) ==
    IF rows = <<>> THEN {<<>>}
    ELSE {<<s>> \o rest : s \in sessionsOfRow(Head(rows)), rest \in sessionsOfRows(Tail(rows))}

\* getAllSessions: every row of the project, latest first
GetAllSessions(project) ==
    /\ LET rows == {r \in Range(sessionsTable) : r.project = project}
       IN \E sorted \in orderByStartedAtDesc(rows) :
            \E ss \in sessionsOfRows(sorted) :
               called' = [op |-> "getAll", arg |-> project, task |-> NULL, result |-> ss]
    /\ UNCHANGED <<nonStoreVars, sessionsTable, checkpointsTable, clock>>

\* saveCheckpoint: INSERT INTO checkpoints with timestamp = now, then the
\* session row is written back with lastCheckpointAt = now
SaveCheckpoint(id, t, status) ==
    /\ id \in 1..Len(sessionsTable)
    /\ Len(checkpointsTable) < MaxCheckpoints
    /\ checkpointsTable' =
          Append(checkpointsTable,
                 [id |-> Len(checkpointsTable) + 1, session_id |-> id, timestamp |-> clock,
                  task_id |-> t, status |-> status])
    /\ sessionsTable' =
          [sessionsTable EXCEPT ![id].data =
              [checkpointUpdate(@, checkpointsTable', t, status)
                  EXCEPT !.lastCheckpointAt = clock]]
    /\ called' = [op |-> "saveCheckpoint", arg |-> id, task |-> t, result |-> <<>>]
    /\ UNCHANGED <<nonStoreVars, clock>>

\* recordError on the session of that id
RecordError(id, t, error) ==
    /\ id \in 1..Len(sessionsTable)
    /\ sessionsTable[id].data.errors[t].iterations < MaxIterations
    /\ sessionsTable' = [sessionsTable EXCEPT ![id].data = recordError(@, t, error)]
    /\ called' = [op |-> "recordError", arg |-> id, task |-> t, result |-> <<>>]
    /\ UNCHANGED <<nonStoreVars, checkpointsTable, clock>>

\* resolveError on the session of that id
ResolveError(id, t) ==
    /\ id \in 1..Len(sessionsTable)
    /\ sessionsTable' = [sessionsTable EXCEPT ![id].data = resolveError(@, t)]
    /\ called' = [op |-> "resolveError", arg |-> id, task |-> t, result |-> <<>>]
    /\ UNCHANGED <<nonStoreVars, checkpointsTable, clock>>

StoreInit ==
    /\ schedIn = <<>>
    /\ schedOut = NotRun
    /\ allTasks = <<>>
    /\ ExecIdle
    /\ StoreIdle
    /\ LoaderIdle
    /\ PathIdle

\* sessions of several projects are created and looked up as time passes
ActiveNext ==
    \/ Tick
    \/ \E project \in Projects, ids \in TaskIdLists : CreateSession(project, ids)
    \/ \E project \in Projects : GetActiveSession(project)

ActiveSpec == StoreInit /\ [][ActiveNext]_vars

\* C21: create(project, phase, taskIds) immediately followed by
\* getActive(project) returns the session just created: same id, pendingTasks =
\* taskIds and currentTask = null, for every list of task ids and whatever
\* earlier sessions the project has.
C21_CreateThenGetActive ==
    [][(called.op = "create" /\ called'.op = "getActive" /\ called'.arg = called.arg)
        => /\ called'.result # <<>>
           /\ called'.result[1].id = called.result[1].id
           /\ called'.result[1].pendingTasks = called.result[1].pendingTasks
           /\ called'.result[1].currentTask = NULL]_vars

\* errors are recorded and resolved for the tasks of a session
ErrorNext ==
    \/ \E ids \in TaskIdLists : sessionsTable = <<>> /\ CreateSession(1, ids)
    \/ \E id \in 1..MaxSessions, t \in TaskIds, error \in Messages :
         /\ id \in 1..Len(sessionsTable)
         /\ t \in Range(sessionsTable[id].data.pendingTasks)
         /\ RecordError(id, t, error)
    \/ \E id \in 1..MaxSessions, t \in TaskIds :
         /\ id \in 1..Len(sessionsTable)
         /\ t \in Range(sessionsTable[id].data.pendingTasks)
         /\ ResolveError(id, t)

ErrorSpec == StoreInit /\ [][ErrorNext]_vars

\* the entry of session.errors for task t of session id, before and after a step
errorOf(id, t) == sessionsTable[id].data.errors[t]

errorAfter(id, t) == sessionsTable'[id].data.errors[t]

\* C22: for every task, errors[t].iterations starts at 1 on the first
\* recordError and grows by exactly 1 on each further recordError, and never
\* decreases; resolveError sets resolved = true and leaves iterations and
\* lastError unchanged; a recordError after resolveError sets resolved back to
\* false.
C22_ErrorCounting ==
    [][\A id \in 1..Len(sessionsTable), t \in TaskIds :
          /\ errorAfter(id, t).iterations >= errorOf(id, t).iterations
          /\ (called'.op = "recordError" /\ called'.arg = id /\ called'.task = t)
                => /\ errorAfter(id, t).iterations = errorOf(id, t).iterations + 1
                   /\ errorAfter(id, t).resolved = FALSE
          /\ (called'.op = "resolveError" /\ called'.arg = id /\ called'.task = t)
                => /\ errorAfter(id, t).iterations = errorOf(id, t).iterations
                   /\ errorAfter(id, t).lastError = errorOf(id, t).lastError
                   /\ errorOf(id, t).iterations > 0 => errorAfter(id, t).resolved = TRUE]_vars

\* an error recorded twice has just been resolved
C22_Witness ==
    /\ called.op = "resolveError"
    /\ \E id \in 1..Len(sessionsTable) :
         /\ called.arg = id
         /\ sessionsTable[id].data.errors[called.task].iterations >= 2
         /\ sessionsTable[id].data.errors[called.task].resolved

\* checkpoints are saved for the sessions of a project as time passes, and
\* the sessions are read back
CheckpointNext ==
    \/ Tick
    \/ CreateSession(1, SortedSeq(TaskIds))
    \/ \E id \in 1..MaxSessions, t \in TaskIds, status \in {"completed", "failed"} :
         SaveCheckpoint(id, t, status)
    \/ \E id \in 1..MaxSessions : GetSession(id)
    \/ \E project \in Projects : GetActiveSession(project)
    \/ \E project \in Projects : GetAllSessions(project)

CheckpointSpec == StoreInit /\ [][CheckpointNext]_vars

\* the checkpoints of a returned session are in the order of their INSERTs
InAppendOrder(cps) == \A i, j \in 1..Len(cps) : i < j => cps[i].rowid < cps[j].rowid

NonDecreasingTimestamps(cps) ==
    \A i, j \in 1..Len(cps) : i < j => cps[i].timestamp <= cps[j].timestamp

\* C23: the checkpoints of a session are returned by get / getActive / listAll
\* in the order in which they were appended, also when two checkpoints are
\* saved within the same clock tick, and their timestamps are non-decreasing
\* along that order.
C23_CheckpointsInAppendOrder ==
    called.op \in {"get", "getActive", "getAll"}
       => \A k \in 1..Len(called.result) :
             /\ InAppendOrder(called.result[k].checkpoints)
             /\ NonDecreasingTimestamps(called.result[k].checkpoints)

(***************************************************************************)
(* Task loader specification: loadTasks and loadTask applied to a phase    *)
(* directory of task directories 1..n with a meta.json. A per-task file is *)
(* modelled by the record TaskSchema.parse gives for it; an estimate       *)
(* string "<n>h" by <<n, "h">>.                                            *)
(***************************************************************************)
MaxLoadTasks == 2
MaxEstimate == 2

NoEstimate == <<>>

NoPriority == "none"

Priorities == {"P0", "P1"}

\* the estimate string of a metadata estimate: `${estimate}h`
formatEstimate(n) == <<n, "h">>

\* dependency lists of task i in a phase of n tasks
DepLists(n, i) == {<<>>} \cup {<<j>> : j \in (1..n) \ {i}}

\* TaskStatusSchema, and the status enum of PhaseTaskEntrySchema
TaskStatuses == {"pending", "in_progress", "completed", "failed", "blocked"}

MetaStatuses == {"not_started", "in_progress", "completed", "failed", "blocked"}

\* what a per-task file of task i that declares no status can parse to
FileTasks(n, i) ==
    [id : {i}, dependencies : DepLists(n, i),
     estimate : {NoEstimate} \cup {formatEstimate(e) : e \in 1..MaxEstimate},
     priority : {NoPriority} \cup Priorities,
     status : {"pending"}]

NoEntry ==
    [present |-> FALSE, dependencies |-> <<>>, estimate |-> 0, priority |-> NoPriority,
     status |-> "not_started"]

\* what meta.json can say of a task i that is not started: nothing, or an entry
MetaEntries(n, i) ==
    {NoEntry} \cup [present : {TRUE}, dependencies : DepLists(n, i),
                    estimate : 1..MaxEstimate, priority : Priorities,
                    status : {"not_started"}]

\* statusMap[metaTask.status] || task.status
statusMap(metaStatus, fileStatus) ==
    IF metaStatus \in {"in_progress", "completed", "failed", "blocked"}
    THEN metaStatus
    ELSE fileStatus

\* loadTasks, lines 91-110: the entry of meta.json overrides the file; the
\* status is mapped unless the entry says not_started
overlay(task, metaTask) ==
    [task EXCEPT !.dependencies = metaTask.dependencies,
                 !.estimate = formatEstimate(metaTask.estimate),
                 !.priority = metaTask.priority,
                 !.status = IF metaTask.status # "not_started"
                            THEN statusMap(metaTask.status, @)
                            ELSE @]

\* metaTaskMap.get(id): an entry of a meta.json that parsed
metaTaskOf(id) == IF metaJson.valid THEN metaJson.tasks[id] ELSE NoEntry

\* loadTaskFromDir of the directory of task id
loadTaskFromDir(id) == taskFiles[id]

\* loadTask: the task of the directory that starts with the id, or nothing
loadTask(id) == IF id \in 1..Len(taskFiles) THEN <<loadTaskFromDir(id)>> ELSE <<>>

\* loadTasks of the phase: every task directory, overlaid, sorted by id
loadPhase ==
    [i \in 1..Len(taskFiles) |->
        IF metaTaskOf(i).present
        THEN overlay(loadTaskFromDir(i), metaTaskOf(i))
        ELSE loadTaskFromDir(i)]

\* loadTasks with options.taskIds: loadTask of each id, those found
loadByIds(ids) == FlattenSeq([k \in 1..Len(ids) |-> loadTask(ids[k])])

LoaderInit ==
    /\ schedIn = <<>>
    /\ schedOut = NotRun
    /\ allTasks = <<>>
    /\ ExecIdle
    /\ StoreIdle
    /\ PathIdle
    /\ \E n \in 1..MaxLoadTasks :
         /\ taskFiles \in {f \in [1..n -> UNION {FileTasks(n, i) : i \in 1..n}] :
                              \A i \in 1..n : f[i].id = i}
         /\ metaJson \in [valid : BOOLEAN,
                          tasks : {m \in [1..n -> UNION {MetaEntries(n, i) : i \in 1..n}] :
                                      \A i \in 1..n : m[i] \in MetaEntries(n, i)}]
    /\ loadedTasks = NotLoaded

\* loadTasks(cwd, project, {phase})
LoadTasksOfPhase ==
    /\ loadedTasks = NotLoaded
    /\ loadedTasks' = [op |-> "loadTasks", tasks |-> loadPhase]
    /\ UNCHANGED <<nonLoaderVars, metaJson, taskFiles>>

\* loadTasks(cwd, project, {taskIds}), as run --tasks calls it
LoadTasksByIds(ids) ==
    /\ loadedTasks = NotLoaded
    /\ loadedTasks' = [op |-> "loadTasksByIds", tasks |-> loadByIds(ids)]
    /\ UNCHANGED <<nonLoaderVars, metaJson, taskFiles>>

\* loadTask(cwd, taskId), as resume calls it
LoadTask(id) ==
    /\ loadedTasks = NotLoaded
    /\ loadedTasks' = [op |-> "loadTask", tasks |-> loadTask(id)]
    /\ UNCHANGED <<nonLoaderVars, metaJson, taskFiles>>

LoaderNext ==
    \/ LoadTasksOfPhase
    \/ \E ids \in SeqsUpTo(1..(MaxLoadTasks + 1), MaxLoadTasks) : LoadTasksByIds(ids)
    \/ \E id \in 1..(MaxLoadTasks + 1) : LoadTask(id)

LoaderSpec == LoaderInit /\ [][LoaderNext]_vars

\* C24: for any phase directory with valid metadata, every loadedTasks task's
\* dependencies, estimate and priority equal the metadata values even if the
\* per-task file declares different ones, whichever loader operation produced
\* the task: loadTasks by phase or loadTask by explicit task id.
C24_MetadataWins ==
    (loadedTasks.op # "none" /\ metaJson.valid)
       => \A k \in 1..Len(loadedTasks.tasks) :
             LET task == loadedTasks.tasks[k]
                 metaTask == metaJson.tasks[task.id]
             IN metaTask.present
                   => /\ task.dependencies = metaTask.dependencies
                      /\ task.estimate = formatEstimate(metaTask.estimate)
                      /\ task.priority = metaTask.priority

(***************************************************************************)
(* Worktree names specification: createWorktree called for the tasks of    *)
(* one project. Strings are sequences of characters.                       *)
(***************************************************************************)
MaxWorktreeCalls == 2

Digits == {"0", "1"}

\* task ids T<PP>-<NNN> (TaskSchema: /^T\d{2}-\d{3}$/)
TaskIdStrings ==
    {<<"T", p1, p2, "-", n1, n2, n3>> : p1 \in Digits, p2 \in Digits, n1 \in Digits,
                                        n2 \in Digits, n3 \in Digits}

NoSlug == <<>>

\* options.taskSlug: none, or a slug of the task name
Slugs == {NoSlug, <<"x">>, <<"0">>}

BaseDirs == {<<"/", "w">>, <<"/", "v">>}

ProjectNames == {<<"a">>, <<"b">>}

\* String.prototype.toLowerCase over the characters that occur
toLowerCase(str) == [i \in 1..Len(str) |-> IF str[i] = "T" THEN "t" ELSE str[i]]

\* str.replace(ch, ''): the first occurrence of ch is removed
RECURSIVE replaceFirst(_, _)
replaceFirst(str, ch) ==
    IF str = <<>> THEN <<>>
    ELSE IF Head(str) = ch THEN Tail(str)
    ELSE <<Head(str)>> \o replaceFirst(Tail(str), ch)

\* path.join of segments without dots or slashes of their own
join(a, b, c) == a \o <<"/">> \o b \o <<"/">> \o c

getWorktreePath_PhaseOnly(taskId) ==
    join(worktreeConfig.worktreeBaseDir, worktreeConfig.project,
         SubSeq(toLowerCase(replaceFirst(taskId, "T")), 1, 2))

getWorktreePath(taskId) ==
    join(worktreeConfig.worktreeBaseDir, worktreeConfig.project,
         toLowerCase(replaceFirst(taskId, "T")))

getBranchName(taskId, taskSlug) ==
    worktreeConfig.project \o <<"/">> \o toLowerCase(taskId)
        \o (IF taskSlug = NoSlug THEN <<>> ELSE <<"-">> \o taskSlug)

PathInit ==
    /\ schedIn = <<>>
    /\ schedOut = NotRun
    /\ allTasks = <<>>
    /\ ExecIdle
    /\ StoreIdle
    /\ LoaderIdle
    /\ worktreeConfig \in [worktreeBaseDir : BaseDirs, project : ProjectNames]
    /\ worktreeCalls = {}
    /\ pushCalls = {}

\* createWorktree: the path and the branch name of the task; an existing
\* directory at the path is returned as it is
CreateWorktree(taskId, taskSlug) ==
    /\ Cardinality(worktreeCalls) < MaxWorktreeCalls
    /\ worktreeCalls' = worktreeCalls \cup
          {[taskId |-> taskId, taskSlug |-> taskSlug,
            existed |-> \E c \in worktreeCalls : c.worktreePath = getWorktreePath(taskId),
            worktreePath |-> getWorktreePath(taskId),
            branchName |-> getBranchName(taskId, taskSlug)]}
    /\ UNCHANGED <<nonPathVars, worktreeConfig, pushCalls>>

PathNext == \E taskId \in TaskIdStrings, taskSlug \in Slugs : CreateWorktree(taskId, taskSlug)

PathSpec == PathInit /\ [][PathNext]_vars

\* C25: the worktree path is a function of (baseDir, project, taskId) only,
\* and for any two distinct task ids of one project the worktree paths differ
\* and the branch names differ, so that a task is never handed the existing
\* worktree of another task.
C25_WorktreeIsolation ==
    \A a \in worktreeCalls, b \in worktreeCalls :
       /\ a.taskId = b.taskId => a.worktreePath = b.worktreePath
       /\ a.taskId # b.taskId
             => /\ a.worktreePath # b.worktreePath
                /\ a.branchName # b.branchName
       /\ a.existed => \E c \in worktreeCalls : c # a /\ c.taskId = a.taskId

\* worktrees were created for two tasks of one phase, under different slugs
C25_Witness ==
    \E a \in worktreeCalls, b \in worktreeCalls :
       /\ a.taskId # b.taskId
       /\ SubSeq(a.taskId, 1, 3) = SubSeq(b.taskId, 1, 3)
       /\ a.taskSlug # b.taskSlug

\* ---------------------------------------------------------------------------
\* Hooks, agent result and validation of an attempt
\* ---------------------------------------------------------------------------

\* the step in which the beforePhase hook fails
BeforePhaseFails ==
    mode = "run" /\ pos = <<0, 0>> /\ mode' = "stopped" /\ outcome' = "failed"

\* a step in which the beforeTask hook of an attempt of t fails: the attempt
\* is over before the task left "ready"
BeforeTaskFails(t) ==
    /\ mode = "run" /\ mode' = "run" /\ pc[t] = "ready"
    /\ \/ pc'[t] = "failed"
       \/ pc'[t] = "ready" /\ attempt'[t] = attempt[t] + 1

\* C26: a failing beforePhase hook ends the run with no task started and no
\* checkpoint written; a failing beforeTask hook ends the attempt of its task
\* with the task not marked as started, no worktree created, the agent not
\* invoked and no checkpoint written.
C26_BlockingHooks ==
    [][/\ BeforePhaseFails =>
            /\ session' = session /\ session.currentTask = NULL
            /\ session.pendingTasks = Ids(allTasks)
            /\ checkpoints' = <<>>
            /\ \A t \in TaskIds : worktreeDirs'[t] = "none" /\ ~attemptLog'[t].ran
       /\ \A t \in TaskIds : BeforeTaskFails(t) =>
            /\ session' = session
            /\ checkpoints' = checkpoints
            /\ startedNow' = startedNow
            /\ worktreeDirs'[t] # "present"
            /\ ~attemptLog'[t].ran /\ ops'[t] = {}]_vars

\* every attempt of a task was stopped by its beforeTask hook: the task has
\* failed with no error recorded, no checkpoint and no worktree
C26_Witness ==
    \E t \in TaskIds :
        /\ mode = "run" /\ pc[t] = "failed"
        /\ session.errors[t].iterations = 0
        /\ t \in Range(session.pendingTasks)
        /\ \A i \in 1..Len(checkpoints) : checkpoints[i].taskId # t
        /\ worktreeDirs[t] = "none"

\* the last checkpoint of task t in the table
lastStatus(cps, t) ==
    LET rows == SelectSeq(cps, LAMBDA c : c.taskId = t)
    IN IF rows = <<>> THEN "none" ELSE rows[Len(rows)].status

\* C27: whether the afterTask, onSuccess and onError hooks succeed or fail, a
\* task's result is the same: after the afterTask hook of a completed attempt
\* the task is done, completed and not retried; after the afterTask hook of
\* a failed attempt the task is failed and the attempt counts as a failure;
\* the onSuccess and onError hooks leave session and checkpoints alone and
\* the command ends as it would have.
C27_WarnOnlyHooks ==
    [][/\ \A t \in TaskIds :
            (pc[t] = "after" /\ pc'[t] # "after" /\ mode' = "run") =>
                /\ pc'[t] = "done"
                /\ attempt' = attempt
                /\ checkpoints' = checkpoints
                /\ lastStatus(checkpoints', t) = "completed"
                /\ session'.completedTasks = session.completedTasks
                /\ session'.failedTasks = session.failedTasks
                /\ t \in Range(session'.completedTasks)
       /\ \A t \in TaskIds :
            (mode = "run" /\ pc[t] = "cpInsF" /\ pc'[t] # "cpInsF" /\ mode' = "run") =>
                /\ checkpoints' = checkpoints
                /\ lastStatus(checkpoints', t) = "failed"
                /\ t \in Range(session'.failedTasks)
                /\ IF attempt[t] < maxRetries
                   THEN pc'[t] = "ready" /\ attempt'[t] = attempt[t] + 1
                   ELSE pc'[t] = "failed"
       /\ hooks'.onSuccess > hooks.onSuccess =>
            outcome' = "success" /\ session' = session /\ checkpoints' = checkpoints
       /\ hooks'.onError > hooks.onError =>
            outcome' = "failed" /\ session' = session /\ checkpoints' = checkpoints]_vars

\* a run whose afterTask and onSuccess hooks all failed has ended in success
\* with every task completed
C27_Witness ==
    /\ scenario = "warnHooksFail"
    /\ mode = "stopped" /\ outcome = "success" /\ hooks.onSuccess = 1
    /\ Range(session.completedTasks) = Range(Ids(allTasks))
    /\ \A t \in Range(Ids(allTasks)) : lastStatus(checkpoints, t) = "completed"

\* the attempt of t whose outcome is known and not yet forgotten
AttemptOver(t) == pc[t] \in {"cpInsC", "cpInsF"} /\ attemptLog[t].ran

\* C28: an attempt whose agent result has completed = true is not failed
\* because of the agent's exit code: the executor goes on to validation,
\* commit and checkpoint whether result.success is true or false.
C28_CompletionByToken ==
    \A t \in TaskIds :
        (AttemptOver(t) /\ attemptLog[t].result.completed) => attemptLog[t].threw # "engine"

\* C29: non-fast with lint and test configured, in run and in resume, an
\* attempt that went past the agent commits or writes a completed checkpoint
\* only after lint and then test have passed; a failed lint or test fails
\* the attempt with no commit, no push and no completed checkpoint.
C29_ValidationBeforeCommit ==
    Validated =>
        \A t \in TaskIds :
            (AttemptOver(t) /\ attemptContinues(attemptLog[t].result)) =>
                /\ (pc[t] = "cpInsC" \/ ops[t] # {}) =>
                        attemptLog[t].lint = "passed" /\ attemptLog[t].test = "passed"
                /\ (attemptLog[t].lint = "failed" \/ attemptLog[t].test = "failed") =>
                        pc[t] = "cpInsF" /\ ops[t] = {}
                /\ attemptLog[t].test # "skipped" => attemptLog[t].lint = "passed"

\* ---------------------------------------------------------------------------
\* TaskScheduler.topologicalSort
\* ---------------------------------------------------------------------------

TopoPriorities == {"P0", NoPriority}

\* priorityOrder[task.priority || 'P3']
priorityOrder(p) ==
    CASE p = "P0" -> 0
      [] p = "P1" -> 1
      [] p = "P2" -> 2
      [] OTHER -> 3

\* the comparator of queue.sort: a before b, by parallelGroup, then priority
sortsBefore(ts, a, b) ==
    LET taskA == TaskOf(ts, a)
        taskB == TaskOf(ts, b)
    IN IF taskA.parallelGroup # taskB.parallelGroup
       THEN taskA.parallelGroup < taskB.parallelGroup
       ELSE priorityOrder(taskA.priority) < priorityOrder(taskB.priority)

\* queue.sort(compare): Array.prototype.sort is stable
RECURSIVE sortQueue(_, _)
sortQueue(ts, queue) ==
    IF queue = <<>> THEN <<>>
    ELSE LET first == CHOOSE i \in 1..Len(queue) :
                          /\ \A j \in 1..Len(queue) : ~sortsBefore(ts, queue[j], queue[i])
                          /\ \A j \in 1..(i - 1) : sortsBefore(ts, queue[i], queue[j])
             rest == [k \in 1..(Len(queue) - 1) |->
                        IF k < first THEN queue[k] ELSE queue[k + 1]]
         IN <<queue[first]>> \o sortQueue(ts, rest)

\* the first loop: one is added to the in-degree of task.id for every entry
\* of task.dependencies
RECURSIVE initialInDegree(_, _)
initialInDegree(ts, i) ==
    IF i = 0 THEN [id \in Range(Ids(ts)) |-> 0]
    ELSE LET d == initialInDegree(ts, i - 1)
         IN [d EXCEPT ![ts[i].id] = @ + Len(ts[i].dependencies)]

\* the second loop: the ids of the tasks of in-degree 0, in list order
initialQueue(ts, inDegree) ==
    Ids(SelectSeq(ts, LAMBDA task : inDegree[task.id] = 0))

\* the for loop over tasks after taskId was shifted: st = [inDegree, queue]
RECURSIVE decrease(_, _, _, _)
decrease(ts, taskId, i, st) ==
    IF i > Len(ts) THEN st
    ELSE IF taskId \in Range(ts[i].dependencies)
    THEN LET old == st.inDegree[ts[i].id]
             newDegree == (IF old = 0 THEN 1 ELSE old) - 1
         IN decrease(ts, taskId, i + 1,
                     [inDegree |-> [st.inDegree EXCEPT ![ts[i].id] = newDegree],
                      queue |-> IF newDegree = 0 THEN Append(st.queue, ts[i].id)
                                ELSE st.queue])
    ELSE decrease(ts, taskId, i + 1, st)

\* the while loop
RECURSIVE process(_, _, _)
process(ts, st, result) ==
    IF st.queue = <<>> THEN result
    ELSE LET sorted == sortQueue(ts, st.queue)
             taskId == Head(sorted)
         IN process(ts, decrease(ts, taskId, 1, [st EXCEPT !.queue = Tail(sorted)]),
                    Append(result, TaskOf(ts, taskId)))

topologicalSort(ts) ==
    LET inDegree == initialInDegree(ts, Len(ts))
        result == process(ts, [inDegree |-> inDegree, queue |-> initialQueue(ts, inDegree)],
                          <<>>)
    IN IF Len(result) # Len(ts)
       THEN [ok |-> FALSE, error |-> "circular", sorted |-> <<>>]
       ELSE [ok |-> TRUE, error |-> "none", sorted |-> result]

TopoTaskList(n, es, g, pr) ==
    [i \in 1..n |-> [id |-> i, dependencies |-> DepsFrom(es, i), parallelGroup |-> g[i],
                     priority |-> pr[i]]]

TopoInit ==
    /\ \E n \in 0..MaxSchedTasks :
         \E es \in SeqsUpTo((1..n) \X (1..MaxSchedTasks), MaxEdges) :
            \E g \in [1..n -> 1..MaxGroup], pr \in [1..n -> TopoPriorities] :
               /\ \A k \in 1..(Len(es) - 1) : es[k][1] <= es[k + 1][1]
               /\ schedIn = TopoTaskList(n, es, g, pr)
    /\ schedOut = NotRun
    /\ allTasks = <<>>
    /\ ExecIdle
    /\ StoreIdle
    /\ LoaderIdle
    /\ PathIdle

TopologicalSort ==
    /\ schedOut = NotRun
    /\ schedOut' = topologicalSort(schedIn)
    /\ UNCHANGED <<schedIn, nonSchedVars>>

TopoNext == TopologicalSort

TopoSpec == TopoInit /\ [][TopoNext]_vars

\* position of the task of the given id in a list of tasks of unique ids
PositionIn(ts, id) == CHOOSE i \in 1..Len(ts) : ts[i].id = id

\* C30: for every acyclic list of tasks of unique ids whose dependencies are
\* all present, dependency lists with repeated entries included,
\* topologicalSort returns a permutation of the list in which every task
\* comes after each of its dependencies.
C30_TopologicalOrder ==
    (schedOut # NotRun /\ ValidDag(schedIn)) =>
        /\ schedOut.ok
        /\ Len(schedOut.sorted) = Len(schedIn)
        /\ Range(schedOut.sorted) = Range(schedIn)
        /\ \A i \in 1..Len(schedOut.sorted) :
              \A d \in Range(schedOut.sorted[i].dependencies) :
                 PositionIn(schedOut.sorted, d) < i

\* ---------------------------------------------------------------------------
\* Dependencies, chunks and the plan of a command
\* ---------------------------------------------------------------------------

\* task d has a completed checkpoint in the table
hasCompletedCheckpoint(cps, d) ==
    \E i \in 1..Len(cps) : cps[i].taskId = d /\ cps[i].status = "completed"

\* the step in which startTask(t) is called
StartsTask(t) == pc[t] = "ready" /\ pc'[t] = "create"

\* C31: in run and in resume, a task is started only when every one of its
\* dependencies has a completed checkpoint in the session; a dependency in
\* failedTasks does not count as satisfied.
C31_StartedOnlyAfterDependencies ==
    [][\A t \in TaskIds :
          StartsTask(t) =>
              \A d \in Range(TaskOf(allTasks, t).dependencies) :
                  hasCompletedCheckpoint(checkpoints, d)]_vars

\* the step in which the executor goes on to the next chunk or wave, or the
\* command reports its end
ExecutorGoesOn ==
    /\ Running
    /\ IF mode' = "stopped" THEN outcome' \in {"success", "failed"} ELSE pos' # pos

\* C32: in run and in resume, when the executor goes on or reports a
\* failure, no task is left started without a checkpoint: the peers of a
\* failed task have run to their own checkpoint.
C32_PeersReachCheckpoint ==
    [][ExecutorGoesOn => Uncheckpointed = {}]_vars

\* phases of two tasks that cannot be scheduled: a cycle, a dependency on a
\* task that is not in the list, a dependency on a task of a higher group
CyclePair == <<PhaseTask(1, <<2>>), PhaseTask(2, <<1>>)>>

UnknownDependencyPair == <<PhaseTask(1, <<>>), PhaseTask(2, <<MaxTasks>>)>>

CrossGroupPair ==
    <<[id |-> 1, dependencies |-> <<2>>, parallelGroup |-> 1],
      [id |-> 2, dependencies |-> <<>>, parallelGroup |-> 2]>>

PlanInit ==
    /\ schedIn = <<>>
    /\ schedOut = [ok |-> FALSE, error |-> "notrun", waves |-> <<>>, detail |-> <<>>]
    /\ allTasks \in {IndependentPair, CyclePair, UnknownDependencyPair, CrossGroupPair}
    /\ ExecIdle
    /\ StoreIdle
    /\ LoaderIdle
    /\ PathIdle

PlanSpec == PlanInit /\ [][Next]_vars

\* C33: once the run command has ended because scheduling failed, or as a
\* dry run, there is no session, no checkpoint, no worktree, no hook has
\* run and no task is or gets started: the command stays ended.
C33_NoEffectWithoutPlan ==
    outcome \in {"schedfail", "dryrun"} =>
        /\ mode = "stopped"
        /\ ~session.created /\ session = NoSession
        /\ checkpoints = <<>>
        /\ hooks = NoHooks
        /\ startedNow = {} /\ attemptLog = NoLogs
        /\ \A t \in TaskIds : pc[t] = "idle" /\ worktreeDirs[t] = "none"

\* the run command of a cyclic phase has ended
C33_Witness ==
    mode = "stopped" /\ outcome = "schedfail" /\ allTasks = CyclePair

\* ---------------------------------------------------------------------------
\* Dependencies on a higher parallelGroup
\* ---------------------------------------------------------------------------

GroupOfId(ts, id) == TaskOf(ts, id).parallelGroup

\* the tasks of group g that wait, directly or through tasks of their group,
\* for a task of a higher group
RECURSIVE BlockedWithin(_, _, _, _)
BlockedWithin(ts, g, B, n) ==
    IF n = 0 THEN B
    ELSE BlockedWithin(ts, g,
            B \cup {ts[i].id : i \in {j \in 1..Len(ts) :
                        /\ ts[j].parallelGroup = g
                        /\ \E d \in Range(ts[j].dependencies) :
                              d \in B \/ GroupOfId(ts, d) > g}},
            n - 1)

BlockedIn(ts, g) == BlockedWithin(ts, g, {}, Len(ts))

\* the lowest group with a task that waits for a higher group
FirstBlockedGroup(ts) ==
    CHOOSE g \in 1..MaxGroup :
        /\ BlockedIn(ts, g) # {}
        /\ \A h \in 1..(g - 1) : BlockedIn(ts, h) = {}

StatusFileTasks(i) ==
    [id : {i}, dependencies : {<<>>}, estimate : {NoEstimate}, priority : {NoPriority},
     status : TaskStatuses]

\* metadata entries of any status
StatusMetaEntries(i) ==
    {NoEntry} \cup [present : {TRUE}, dependencies : {<<>>}, estimate : {1},
                    priority : {"P0"}, status : MetaStatuses]

StatusInit ==
    /\ schedIn = <<>>
    /\ schedOut = NotRun
    /\ allTasks = <<>>
    /\ ExecIdle
    /\ StoreIdle
    /\ PathIdle
    /\ \E n \in 1..MaxLoadTasks :
         /\ taskFiles \in {f \in [1..n -> UNION {StatusFileTasks(i) : i \in 1..n}] :
                              \A i \in 1..n : f[i].id = i}
         /\ metaJson \in [valid : BOOLEAN,
                          tasks : {m \in [1..n -> UNION {StatusMetaEntries(i) : i \in 1..n}] :
                                      \A i \in 1..n : m[i] \in StatusMetaEntries(i)}]
    /\ loadedTasks = NotLoaded

StatusSpec == StatusInit /\ [][LoaderNext]_vars

\* the task status a metadata status stands for
mappedStatus(metaStatus) == IF metaStatus = "not_started" THEN "pending" ELSE metaStatus

\* C35: when the valid phase metadata has an entry for a task, the loaded
\* task's status is the mapped metadata status whatever the per-task file
\* declares: in_progress, completed, failed and blocked map to themselves,
\* not_started maps to pending.
C35_MetadataStatusWins ==
    (loadedTasks.op # "none" /\ metaJson.valid)
       => \A k \in 1..Len(loadedTasks.tasks) :
             LET task == loadedTasks.tasks[k]
                 metaTask == metaJson.tasks[task.id]
             IN metaTask.present => task.status = mappedStatus(metaTask.status)

\* ---------------------------------------------------------------------------
\* The branch of a task: created, registered, pushed
\* ---------------------------------------------------------------------------

\* task names (TaskSchema: at least one character)
TaskNames == {<<"T">>, <<"x", " ", " ", "T">>}

\* the length the executor cuts a slug to
slugLength == 30

\* str.replace(/\s+/g, '-'): every run of whitespace becomes one dash
RECURSIVE replaceWhitespace(_)
replaceWhitespace(str) ==
    IF str = <<>> THEN <<>>
    ELSE IF Head(str) # " " THEN <<Head(str)>> \o replaceWhitespace(Tail(str))
    ELSE IF Len(str) > 1 /\ str[2] = " " THEN replaceWhitespace(Tail(str))
    ELSE <<"-">> \o replaceWhitespace(Tail(str))

\* task.name.toLowerCase().replace(/\s+/g, '-').slice(0, 30)
taskSlugOf(name) ==
    LET dashed == replaceWhitespace(toLowerCase(name))
    IN SubSeq(dashed, 1, IF Len(dashed) < slugLength THEN Len(dashed) ELSE slugLength)

\* executeTask: createWorktree with the slug of the task name; the branch
\* name returned is the one registered in session.branches
ExecutorCreateWorktree(taskId, name) ==
    /\ Len(name) >= 1
    /\ CreateWorktree(taskId, taskSlugOf(name))

\* executeTask: pushBranch(task.id) after the commit, for a task whose
\* worktree the executor has created
PushBranch(taskId) ==
    /\ \E c \in worktreeCalls : c.taskId = taskId
    /\ pushCalls' = pushCalls \cup
          {[taskId |-> taskId, branchName |-> getBranchName(taskId, NoSlug)]}
    /\ UNCHANGED <<nonPathVars, worktreeConfig, worktreeCalls>>

BranchNext ==
    \/ \E taskId \in TaskIdStrings, name \in TaskNames : ExecutorCreateWorktree(taskId, name)
    \/ \E taskId \in TaskIdStrings : PushBranch(taskId)

BranchSpec == PathInit /\ [][BranchNext]_vars

\* C36: the branch pushBranch pushes for a task is the branch createWorktree
\* created or checked out for that task and the executor registered: the
\* same name, slug included.
C36_PushedBranchIsTaskBranch ==
    \A p \in pushCalls, c \in worktreeCalls :
        c.taskId = p.taskId => p.branchName = c.branchName

\* ---------------------------------------------------------------------------
\* Commits, pushes and errors of completed tasks
\* ---------------------------------------------------------------------------

\* the commands on the two-task phases, with the branches observed
CommitNext ==
    \/ RunCommand
    \/ BeforePhase
    \/ Advance
    \/ \E t \in TaskIds : Begin(t)
    \/ \E t \in TaskIds : Create(t)
    \/ \E t \in TaskIds : FinishObserved(t)
    \/ \E t \in TaskIds : Update(t)
    \/ \E t \in TaskIds : After(t)
    \/ Crash
    \/ Resume

CommitSpec == AttemptInit /\ [][CommitNext]_vars

\* C37: when a task gets a completed checkpoint, in run or in resume, its
\* branch carries no commit of the executor, of this or of an earlier
\* attempt, that has not been pushed.
C37_NoUnpushedCommitAtCompletion ==
    \A t \in TaskIds : pc[t] = "cpInsC" => t \notin unpushed

\* C38: once the pipeline of a task has ended with a completed checkpoint, in
\* run or in resume, the session has no errors entry for the task or the
\* entry is resolved.
C38_CompletedTaskHasNoOpenError ==
    \A t \in TaskIds :
        pc[t] = "done" =>
            session.errors[t].iterations = 0 \/ session.errors[t].resolved

\* the afterTask calls of the attempt of t that is running or ended last
afterTaskCalls(t) == attemptLog[t].afterTask

\* C39: in a run the afterTask hook is invoked once when an attempt whose
\* beforeTask hook succeeded ends, with status success after a completed
\* checkpoint and with status error after a failed one; it is not invoked
\* for an attempt whose beforeTask hook failed, nor before the attempt ends.
C39_AfterTaskOncePerAttempt ==
    [][mode = "run" =>
        \A t \in TaskIds :
           /\ (pc[t] = "after" /\ pc'[t] = "done") =>
                  /\ afterTaskCalls(t)' = <<"success">>
                  /\ lastStatus(checkpoints, t) = "completed"
           /\ (pc[t] = "cpInsF" /\ pc'[t] \in {"ready", "failed"}) =>
                  /\ afterTaskCalls(t)' = <<"error">>
                  /\ lastStatus(checkpoints, t) = "failed"
           /\ BeforeTaskFails(t) => afterTaskCalls(t)' = <<>>
           /\ pc'[t] \in {"create", "exec", "cpInsC", "cpInsF", "after"} =>
                  afterTaskCalls(t)' = <<>>
           /\ afterTaskCalls(t)' # afterTaskCalls(t) =>
                  \/ pc[t] \in {"after", "cpInsF"}
                  \/ afterTaskCalls(t)' = <<>>]_vars

\* a task failed its first attempt and completed its second: afterTask was
\* invoked for the second attempt, with status success
C39_Witness ==
    \E t \in TaskIds :
        /\ mode = "run" /\ pc[t] = "done" /\ attempt[t] = 1
        /\ afterTaskCalls(t) = <<"success">>
        /\ session.errors[t].iterations = 1

\* all tasks of the parallel chunk under execution have terminated
ChunkSettled ==
    /\ mode = "run" /\ pos[1] >= 1 /\ ~MidWrite
    /\ IsParallelWave(waves[pos[1]], parallel)
    /\ BatchSettled(CurBatch)

\* every checkpoint row has its task in the set of its status
CheckpointsInSets ==
    \A i \in 1..Len(checkpoints) :
        LET cp == checkpoints[i]
        IN /\ cp.status = "completed" => cp.taskId \in Range(session.completedTasks)
           /\ cp.status = "failed" => cp.taskId \in Range(session.failedTasks)

====
